---- MODULE Spec2Model ----
(***************************************************************************)
(* Model of the metrics store of FastAPI-Talks                             *)
(* (src/metrics_exporter/storage.py, class MetricsStorage).                *)
(*                                                                         *)
(* Every method of MetricsStorage opens its own sqlite3 connection         *)
(* (_get_connection) and closes it when it returns or raises.  A method    *)
(* is modelled as a client process that takes one step per SQL statement;  *)
(* clients interleave between statements.  The storage engine is modelled  *)
(* by the committed database `db`, the write lock `lock` (SQLite admits    *)
(* one write transaction at a time) and the private, uncommitted view      *)
(* `txn[p]` of the client that holds the lock.  Python's sqlite3 opens a   *)
(* transaction implicitly before INSERT/DELETE, runs SELECT outside any    *)
(* transaction, and rolls an open transaction back when the connection is  *)
(* closed without commit.                                                  *)
(***************************************************************************)
EXTENDS Integers, Sequences, FiniteSets, TLC

\* Largest surrogate id the AUTOINCREMENT counter of benchmark_runs may hand out.
MaxId == 2

\* Two clients, so that a writer runs against a writer or against a reader.
\* Reads do not affect one another, so one client issues them.
Procs == {"p1", "p2"}
Readers == {"p1"}
RunIds == {"r1", "r2"}
Protocols == {"REST", "gRPC"}

NoProc == "none"

VARIABLES
    db,      \* committed database: benchmark_runs, metrics, AUTOINCREMENT counter
    lock,    \* the client holding SQLite's write lock, or NoProc
    txn,     \* txn[p]: uncommitted view of the client's open write transaction
    pc,      \* pc[p]: the statement the client is about to execute
    op,      \* op[p]: the method the client is executing, with its arguments
    loc,     \* loc[p]: local variables of the method
    ret,     \* ret[p]: what the method returned or raised
    saved,   \* saved[id]: the metrics list committed with the run of that id
    quiet,   \* quiet[p]: no other client has committed since p's read began
    race,    \* "new"/"stored": the clients' current calls are saves that overlap,
             \* and the later one began with its run_id absent/present in the store
    env      \* what the program reads from outside: env.clock is the UTC clock
             \* in whole seconds (datetime.utcnow() formatted %Y%m%d_%H%M%S)

vars == <<db, lock, txn, pc, op, loc, ret, saved, quiet, race, env>>

----------------------------------------------------------------------------
(* Data model: MetricData, BenchmarkResult.                                *)

MetricDataAt(rid, req, resp, lat) ==
    [request_id |-> rid, request_timestamp |-> req, response_timestamp |-> resp,
     latency_seconds |-> lat]

\* A metric whose request was sent at second 00 and answered `lat` seconds
\* later (timestamp texts as character codes, '0' is 48).
MetricData(rid, lat) == MetricDataAt(rid, <<48, 48>>, <<48, 48 + lat>>, lat)

\* The request-id lists that callers save: no metrics, and two metrics that
\* are neither in ascending order nor contiguous.
IdLists == {<<>>, <<3, 0>>}

\* The k-th metric handed to save carries latency k, so a metric's payload
\* identifies its position in the caller's list.
MetricLists == {[k \in DOMAIN s |-> MetricData(s[k], k)] : s \in IdLists}

\* A naive UTC datetime: whole seconds and microseconds.
DateTime(sec, usec) == [sec |-> sec, usec |-> usec]

\* The instants that callers put into BenchmarkResult.timestamp.
Timestamps == {DateTime(9, 0), DateTime(9, 5), DateTime(10, 0)}

\* datetime.isoformat(), as a sequence of character codes: the seconds are
\* zero-padded to two digits, and the fraction is written only when the
\* microseconds are not zero ('.' is 46, '0' is 48).
IsoFormat(t) ==
    <<48 + (t.sec \div 10), 48 + (t.sec % 10)>>
        \o (IF t.usec = 0 THEN <<>> ELSE <<46, 48 + t.usec>>)

FromIsoFormat_Seconds(text) == DateTime((text[1] - 48) * 10 + (text[2] - 48), 0)

\* datetime.fromisoformat(text) of a text that isoformat() wrote.
FromIsoFormat(text) ==
    DateTime((text[1] - 48) * 10 + (text[2] - 48),
             IF Len(text) = 2 THEN 0 ELSE text[4] - 48)

\* An Optional value: None is the empty sequence, a value its singleton.
None == <<>>
Some(x) == <<x>>

\* json.dumps writes None as the text null and a dict as an object text;
\* json.loads reads them back.  The values inside an object are carried
\* as they are.
JsonDumps(value) ==
    IF value = None THEN [text |-> "null", object |-> None]
    ELSE [text |-> "object", object |-> value]

JsonLoads(json) == IF json.text = "null" THEN None ELSE json.object

\* The metadata bags of the model: the default empty dict, and one entry.
NoMetadata == Some([n \in {} |-> 0])
Metadata == {NoMetadata, Some([n \in {"host"} |-> 1])}

BenchmarkResultWith(rid, proto, ts, ms, stats, metadata) ==
    [run_id |-> rid, protocol |-> proto, timestamp |-> ts, metrics |-> ms,
     stats |-> stats, metadata |-> metadata]

\* A BenchmarkResult with the defaults stats=None, metadata={}.
BenchmarkResultAt(rid, proto, ts, ms) ==
    BenchmarkResultWith(rid, proto, ts, ms, None, NoMetadata)

\* A BenchmarkResult of the concurrent clients; they all use one timestamp.
BenchmarkResult(rid, proto, ms) ==
    BenchmarkResultAt(rid, proto, DateTime(9, 0), ms)

Inputs ==
    {BenchmarkResult(rid, proto, ms) :
        rid \in RunIds, proto \in Protocols, ms \in MetricLists}

----------------------------------------------------------------------------
(* SQL statements, as operators on a database view                         *)
(* [runs, metrics, seq]: runs and metrics are the tables in rowid order,   *)
(* seq is the AUTOINCREMENT counter of benchmark_runs (sqlite_sequence).   *)

Range(s) == {s[i] : i \in DOMAIN s}

RECURSIVE WhereRunId(_, _)
\* SELECT * FROM <table> WHERE run_id = ?   (rows in rowid order)
WhereRunId(rows, run_id) ==
    IF rows = <<>> THEN <<>>
    ELSE IF Head(rows).run_id = run_id
         THEN <<Head(rows)>> \o WhereRunId(Tail(rows), run_id)
         ELSE WhereRunId(Tail(rows), run_id)

RECURSIVE DeleteWhereRunId(_, _)
\* DELETE FROM <table> WHERE run_id = ?   (the rows that remain)
DeleteWhereRunId(rows, run_id) ==
    IF rows = <<>> THEN <<>>
    ELSE IF Head(rows).run_id = run_id
         THEN DeleteWhereRunId(Tail(rows), run_id)
         ELSE <<Head(rows)>> \o DeleteWhereRunId(Tail(rows), run_id)

\* The schema of an empty database, as _init_db creates it.
EmptyDb == [runs |-> <<>>, metrics |-> <<>>, seq |-> 0]

\* run_id TEXT UNIQUE NOT NULL: the INSERT is rejected when the key is taken.
UniqueViolation_Off(view, run_id) == FALSE

UniqueViolation(view, run_id) ==
    \E i \in DOMAIN view.runs : view.runs[i].run_id = run_id

\* The rowid of a table without AUTOINCREMENT: one more than the greatest
\* rowid present.
NextRowId_Reuse(view) ==
    IF view.runs = <<>> THEN 1
    ELSE 1 + (CHOOSE i \in {r.id : r \in Range(view.runs)} :
                 \A r \in Range(view.runs) : r.id <= i)

\* id INTEGER PRIMARY KEY AUTOINCREMENT: one more than the largest id ever used.
NextRowId(view) == view.seq + 1

\* INSERT INTO benchmark_runs (run_id, protocol, ...) VALUES (...)
InsertRun(view, result) ==
    [view EXCEPT
        !.runs = Append(@, [id |-> NextRowId(view), run_id |-> result.run_id,
                            protocol |-> result.protocol,
                            timestamp |-> IsoFormat(result.timestamp),
                            stats_json |-> JsonDumps(result.stats),
                            metadata_json |-> JsonDumps(result.metadata)]),
        !.seq = NextRowId(view)]

\* INSERT INTO metrics (run_id, request_id, ..., latency_seconds) VALUES (...)
InsertMetric(view, run_id, m) ==
    [view EXCEPT
        !.metrics = Append(@, [run_id |-> run_id, request_id |-> m.request_id,
                               request_timestamp |-> m.request_timestamp,
                               response_timestamp |-> m.response_timestamp,
                               latency_seconds |-> m.latency_seconds])]

DeleteMetrics_Keep(view, run_id) == view

\* DELETE FROM metrics WHERE run_id = ?
DeleteMetrics(view, run_id) ==
    [view EXCEPT !.metrics = DeleteWhereRunId(@, run_id)]

DeleteRuns_All(view, run_id) == [view EXCEPT !.runs = <<>>]

\* DELETE FROM benchmark_runs WHERE run_id = ?
DeleteRuns(view, run_id) ==
    [view EXCEPT !.runs = DeleteWhereRunId(@, run_id)]

\* cursor.rowcount of the DELETE FROM benchmark_runs
RowCount(view, run_id) == Len(WhereRunId(view.runs, run_id))

RECURSIVE InsertSorted(_, _)
InsertSorted(m, sorted) ==
    IF sorted = <<>> THEN <<m>>
    ELSE IF m.request_id < Head(sorted).request_id THEN <<m>> \o sorted
         ELSE <<Head(sorted)>> \o InsertSorted(m, Tail(sorted))

OrderByRequestId_None(rows) == rows

RECURSIVE OrderByRequestId(_)
\* ORDER BY request_id
OrderByRequestId(rows) ==
    IF rows = <<>> THEN <<>>
    ELSE InsertSorted(rows[Len(rows)], OrderByRequestId(SubSeq(rows, 1, Len(rows) - 1)))

\* SELECT * FROM benchmark_runs WHERE run_id = ?  .fetchone()
\* (the empty sequence stands for None)
SelectRun(view, run_id) ==
    LET rows == WhereRunId(view.runs, run_id)
    IN  IF rows = <<>> THEN <<>> ELSE <<Head(rows)>>

\* SELECT * FROM metrics WHERE run_id = ? ORDER BY request_id, as MetricData
SelectMetrics(view, run_id) ==
    LET rows == OrderByRequestId(WhereRunId(view.metrics, run_id))
    IN  [k \in DOMAIN rows |->
            MetricDataAt(rows[k].request_id, rows[k].request_timestamp,
                         rows[k].response_timestamp, rows[k].latency_seconds)]

GroupId_Min(view, protocol) ==
    CHOOSE i \in {r.id : r \in {x \in Range(view.runs) : x.protocol = protocol}} :
        \A r \in Range(view.runs) : r.protocol = protocol => i <= r.id

\* SELECT MAX(id) FROM benchmark_runs GROUP BY protocol, for one group
GroupId(view, protocol) ==
    CHOOSE i \in {r.id : r \in {x \in Range(view.runs) : x.protocol = protocol}} :
        \A r \in Range(view.runs) : r.protocol = protocol => i >= r.id

RECURSIVE WhereIdIn(_, _)
WhereIdIn(rows, ids) ==
    IF rows = <<>> THEN <<>>
    ELSE IF Head(rows).id \in ids THEN <<Head(rows)>> \o WhereIdIn(Tail(rows), ids)
         ELSE WhereIdIn(Tail(rows), ids)

\* SELECT * FROM benchmark_runs WHERE id IN (SELECT MAX(id) ... GROUP BY protocol)
SelectLatestRows(view) ==
    WhereIdIn(view.runs,
              {GroupId(view, r.protocol) : r \in Range(view.runs)})

\* get_stats: SELECT COUNT(*) FROM benchmark_runs / FROM metrics
TotalRuns(view) == Len(view.runs)

TotalMetrics_Runs(view) == Len(view.runs)

TotalMetrics(view) == Len(view.metrics)

\* get_stats: SELECT protocol, COUNT(*) FROM benchmark_runs GROUP BY protocol
ProtocolCounts(view) ==
    [k \in {r.protocol : r \in Range(view.runs)} |->
        Cardinality({i \in DOMAIN view.runs : view.runs[i].protocol = k})]

\* Text comparison of SQLite (BINARY collation): byte by byte, a proper
\* prefix sorts first.
TextLess(a, b) ==
    \E k \in 1..Len(b) :
        /\ \A i \in 1..(k - 1) : i <= Len(a) /\ a[i] = b[i]
        /\ (k > Len(a) \/ (k <= Len(a) /\ a[k] < b[k]))

\* get_all_runs: if protocol: query += " WHERE protocol = ?"
\* (None and the empty string select every run)
NoProtocol == ""

RECURSIVE WhereProtocol(_, _)
WhereProtocol(rows, protocol) ==
    IF protocol = NoProtocol \/ rows = <<>> THEN rows
    ELSE IF Head(rows).protocol = protocol
         THEN <<Head(rows)>> \o WhereProtocol(Tail(rows), protocol)
         ELSE WhereProtocol(Tail(rows), protocol)

OrderedByTimestampDesc_Asc(rows) ==
    \A i, j \in DOMAIN rows :
        i < j => ~TextLess(rows[j].timestamp, rows[i].timestamp)

\* ORDER BY timestamp DESC: no row is followed by one with a greater text.
OrderedByTimestampDesc(rows) ==
    \A i, j \in DOMAIN rows :
        i < j => ~TextLess(rows[i].timestamp, rows[j].timestamp)

\* The orders in which ORDER BY timestamp DESC may return the rows: SQL
\* leaves the order of rows with equal timestamps open.
OrderByTimestampDesc(rows) ==
    {s \in [DOMAIN rows -> Range(rows)] :
        /\ \A i, j \in DOMAIN rows : i # j => s[i] # s[j]
        /\ OrderedByTimestampDesc(s)}

\* LIMIT ? OFFSET ?   (both >= 0)
LimitOffset(rows, limit, offset) ==
    SubSeq(rows, offset + 1,
           IF offset + limit < Len(rows) THEN offset + limit ELSE Len(rows))

\* The dict that get_all_runs builds from a row.
Summary(row) ==
    [id |-> row.id, run_id |-> row.run_id, protocol |-> row.protocol,
     timestamp |-> row.timestamp]

\* conn.close() with a transaction still open: the transaction is rolled back.
CloseUncommitted_Commits(committed, view) == view

CloseUncommitted(committed, view) == committed

----------------------------------------------------------------------------
(* Values of the clients' local state.                                     *)

NoOp == [name |-> "none"]
NoLoc == [at |-> "none"]
NoRet == [kind |-> "none"]

Raises(error) == [kind |-> "raise", error |-> error]
ReturnsId(id) == [kind |-> "id", id |-> id]
ReturnsBool(b) == [kind |-> "bool", value |-> b]
ReturnsNone == [kind |-> "None"]
ReturnsRun(run) == [kind |-> "run", run |-> run]
ReturnsDict(results) == [kind |-> "dict", results |-> results]
ReturnsList(rows) == [kind |-> "list", rows |-> rows]
ReturnsStats(stats) == [kind |-> "stats", stats |-> stats]

\* The BenchmarkResult that get_benchmark builds from a row and its metrics.
\* stats_data = json.loads(row['stats_json']) if row['stats_json'] else None
\* (the column always holds a non-empty text)
StatsData(row) == JsonLoads(row.stats_json)

StoredResult(row, metrics) ==
    [id |-> row.id, run_id |-> row.run_id, protocol |-> row.protocol,
     timestamp |-> FromIsoFormat(row.timestamp),
     metrics |-> metrics,
     stats |-> StatsData(row),
     metadata |-> JsonLoads(row.metadata_json)]

TypeOK ==
    /\ db.seq \in 0..MaxId
    /\ lock \in Procs \cup {NoProc}
    /\ \A p \in Procs : pc[p] \in
         {"idle", "s_insert", "s_metrics", "s_commit", "d_metrics", "d_runs",
          "d_commit", "g_run", "g_metrics", "l_rows", "l_run", "l_metrics",
          "done", "failed"}

Init ==
    /\ db = EmptyDb
    /\ lock = NoProc
    /\ txn = [p \in Procs |-> EmptyDb]
    /\ pc = [p \in Procs |-> "idle"]
    /\ op = [p \in Procs |-> NoOp]
    /\ loc = [p \in Procs |-> NoLoc]
    /\ ret = [p \in Procs |-> NoRet]
    /\ saved = <<>>
    /\ quiet = [p \in Procs |-> TRUE]
    /\ race = "none"
    /\ env = [clock |-> 0]

----------------------------------------------------------------------------
(* The engine: write lock and commit.                                      *)

\* A write statement can start when no other connection holds the write lock.
LockFree_Ignored(p) == TRUE

LockFree(p) == lock \in {NoProc, p}

\* conn.commit() by p: other clients' methods in progress are no longer alone.
Disturb(p) ==
    [q \in Procs |->
        IF q # p /\ op[q].name \in {"get", "latest"} /\ txn[p] # db
        THEN FALSE ELSE quiet[q]]

\* The client is inside a method that has not yet returned or raised.
Running(q) == pc[q] \notin {"idle", "done", "failed"}

Begin(p, operation, label) ==
    /\ pc[p] = "idle"
    /\ pc' = [pc EXCEPT ![p] = label]
    /\ op' = [op EXCEPT ![p] = operation]
    /\ quiet' = [quiet EXCEPT ![p] = TRUE]
    /\ race' = IF /\ operation.name = "save"
                   /\ \E q \in Procs \ {p} : Running(q) /\ op[q].name = "save"
                THEN IF UniqueViolation(db, operation.result.run_id)
                     THEN "stored" ELSE "new"
                ELSE "none"
    /\ UNCHANGED <<db, lock, txn, loc, ret, saved, env>>

----------------------------------------------------------------------------
(* save_benchmark(result)                                                  *)

CallSave(p) ==
    \E result \in Inputs :
        /\ db.seq < MaxId
        /\ Begin(p, [name |-> "save", result |-> result], "s_insert")

\* INSERT OR IGNORE: the statement inserts nothing and the method goes on.
RejectInsert_Ignore(p) ==
    /\ lock' = p
    /\ txn' = [txn EXCEPT ![p] = db]
    /\ loc' = [loc EXCEPT ![p] = [at |-> "save", benchmark_id |-> 0, done |-> 0]]
    /\ pc' = [pc EXCEPT ![p] =
                 IF op[p].result.metrics # <<>> THEN "s_metrics" ELSE "s_commit"]
    /\ UNCHANGED <<db, ret>>

\* The INSERT violates UNIQUE(run_id): sqlite3.IntegrityError leaves the method
\* and _get_connection closes the connection.
RejectInsert(p) ==
    /\ pc' = [pc EXCEPT ![p] = "failed"]
    /\ ret' = [ret EXCEPT ![p] = Raises("IntegrityError")]
    /\ UNCHANGED <<db, lock, txn, loc>>

\* INSERT INTO benchmark_runs: takes the write lock, or raises IntegrityError
\* and the connection is closed.
SaveInsertRun(p) ==
    /\ pc[p] = "s_insert"
    /\ LockFree(p)
    /\ LET result == op[p].result IN
       IF UniqueViolation(db, result.run_id)
       THEN RejectInsert(p)
       ELSE /\ db.seq < MaxId
            /\ lock' = p
            /\ txn' = [txn EXCEPT ![p] = InsertRun(db, result)]
            /\ loc' = [loc EXCEPT ![p] =
                         [at |-> "save", benchmark_id |-> NextRowId(db), done |-> 0]]
            /\ pc' = [pc EXCEPT ![p] =
                         IF result.metrics # <<>> THEN "s_metrics" ELSE "s_commit"]
            /\ UNCHANGED <<db, ret>>
    /\ UNCHANGED <<op, saved, quiet, race, env>>

\* conn.executemany(INSERT INTO metrics ...): one row per step.
SaveInsertMetric(p) ==
    /\ pc[p] = "s_metrics"
    /\ LET result == op[p].result
           k == loc[p].done + 1
       IN  /\ txn' = [txn EXCEPT ![p] = InsertMetric(@, result.run_id, result.metrics[k])]
           /\ loc' = [loc EXCEPT ![p].done = k]
           /\ pc' = [pc EXCEPT ![p] =
                        IF k = Len(result.metrics) THEN "s_commit" ELSE "s_metrics"]
    /\ UNCHANGED <<db, lock, op, ret, saved, quiet, race, env>>

\* conn.commit(); return benchmark_id
SaveCommit(p) ==
    /\ pc[p] = "s_commit"
    /\ db' = txn[p]
    /\ lock' = IF lock = p THEN NoProc ELSE lock
    /\ txn' = [txn EXCEPT ![p] = EmptyDb]
    /\ saved' = Append(saved, op[p].result.metrics)
    /\ quiet' = Disturb(p)
    /\ ret' = [ret EXCEPT ![p] = ReturnsId(loc[p].benchmark_id)]
    /\ loc' = [loc EXCEPT ![p] = NoLoc]
    /\ pc' = [pc EXCEPT ![p] = "done"]
    /\ UNCHANGED <<op, race, env>>

----------------------------------------------------------------------------
(* delete_run(run_id)                                                      *)

CallDelete(p) ==
    \E run_id \in RunIds :
        Begin(p, [name |-> "delete", run_id |-> run_id], "d_metrics")

\* DELETE FROM metrics WHERE run_id = ?   (takes the write lock)
DeleteRunMetrics(p) ==
    /\ pc[p] = "d_metrics"
    /\ LockFree(p)
    /\ lock' = p
    /\ txn' = [txn EXCEPT ![p] = DeleteMetrics(db, op[p].run_id)]
    /\ pc' = [pc EXCEPT ![p] = "d_runs"]
    /\ UNCHANGED <<db, op, loc, ret, saved, quiet, race, env>>

\* cursor = DELETE FROM benchmark_runs WHERE run_id = ?
DeleteRunRow(p) ==
    /\ pc[p] = "d_runs"
    /\ loc' = [loc EXCEPT ![p] =
                 [at |-> "delete", rowcount |-> RowCount(txn[p], op[p].run_id)]]
    /\ txn' = [txn EXCEPT ![p] = DeleteRuns(@, op[p].run_id)]
    /\ pc' = [pc EXCEPT ![p] = "d_commit"]
    /\ UNCHANGED <<db, lock, op, ret, saved, quiet, race, env>>

RowsDeleted_Always(rowcount) == rowcount >= 0

\* return cursor.rowcount > 0
RowsDeleted(rowcount) == rowcount > 0

\* conn.commit(); return cursor.rowcount > 0
DeleteCommit(p) ==
    /\ pc[p] = "d_commit"
    /\ db' = txn[p]
    /\ lock' = IF lock = p THEN NoProc ELSE lock
    /\ txn' = [txn EXCEPT ![p] = EmptyDb]
    /\ quiet' = Disturb(p)
    /\ ret' = [ret EXCEPT ![p] = ReturnsBool(RowsDeleted(loc[p].rowcount))]
    /\ loc' = [loc EXCEPT ![p] = NoLoc]
    /\ pc' = [pc EXCEPT ![p] = "done"]
    /\ UNCHANGED <<op, saved, race, env>>

----------------------------------------------------------------------------
(* Failures of a writer.                                                   *)

\* The write lock is held by another connection for longer than the busy
\* timeout: sqlite3.OperationalError (database is locked).
WriteBusy(p) ==
    /\ pc[p] \in {"s_insert", "d_metrics"}
    /\ ~LockFree(p)
    /\ pc' = [pc EXCEPT ![p] = "failed"]
    /\ ret' = [ret EXCEPT ![p] = Raises("OperationalError")]
    /\ UNCHANGED <<db, lock, txn, op, loc, saved, quiet, race, env>>

\* The method is interrupted or a statement raises after the transaction
\* began: _get_connection closes the connection without commit.
Interrupt(p) ==
    /\ pc[p] \in {"s_insert", "s_metrics", "s_commit", "d_metrics", "d_runs", "d_commit"}
    /\ db' = IF lock = p THEN CloseUncommitted(db, txn[p]) ELSE db
    /\ lock' = IF lock = p THEN NoProc ELSE lock
    /\ txn' = [txn EXCEPT ![p] = EmptyDb]
    /\ pc' = [pc EXCEPT ![p] = "failed"]
    /\ ret' = [ret EXCEPT ![p] = Raises("Interrupted")]
    /\ loc' = [loc EXCEPT ![p] =
                 IF pc[p] = "s_metrics" /\ loc[p].done > 0
                 THEN [at |-> "executemany"] ELSE NoLoc]
    /\ UNCHANGED <<op, saved, quiet, race, env>>

----------------------------------------------------------------------------
(* get_benchmark(run_id): two SELECTs, each reading the committed database *)
(* at the moment it runs.                                                  *)

CallGet(p) ==
    \E run_id \in RunIds :
        /\ p \in Readers
        /\ Begin(p, [name |-> "get", run_id |-> run_id], "g_run")

RowMissing_Never(row) == FALSE

\* if not row: return None
RowMissing(row) == row = <<>>

\* row = SELECT * FROM benchmark_runs WHERE run_id = ?
GetRun(p) ==
    /\ pc[p] = "g_run"
    /\ LET row == SelectRun(db, op[p].run_id) IN
       IF RowMissing(row)
       THEN /\ ret' = [ret EXCEPT ![p] = ReturnsNone]
            /\ pc' = [pc EXCEPT ![p] = "done"]
            /\ UNCHANGED loc
       ELSE /\ loc' = [loc EXCEPT ![p] = [at |-> "get", row |-> row]]
            /\ pc' = [pc EXCEPT ![p] = "g_metrics"]
            /\ UNCHANGED ret
    /\ UNCHANGED <<db, lock, txn, op, saved, quiet, race, env>>

\* metrics_rows = SELECT * FROM metrics WHERE run_id = ? ORDER BY request_id;
\* return BenchmarkResult(id=row['id'], ..., metrics=metrics)
GetMetrics(p) ==
    /\ pc[p] = "g_metrics"
    /\ ret' = [ret EXCEPT ![p] =
                 IF loc[p].row = <<>> THEN Raises("TypeError")
                 ELSE ReturnsRun(StoredResult(loc[p].row[1],
                                              SelectMetrics(db, op[p].run_id)))]
    /\ loc' = [loc EXCEPT ![p] = NoLoc]
    /\ pc' = [pc EXCEPT ![p] = "done"]
    /\ UNCHANGED <<db, lock, txn, op, saved, quiet, race, env>>

----------------------------------------------------------------------------
(* get_latest_by_protocol(): one SELECT, then get_benchmark for every row. *)

CallLatest(p) == p \in Readers /\ Begin(p, [name |-> "latest"], "l_rows")

\* results[result.protocol] = result
Put(results, key, value) ==
    [k \in DOMAIN results \cup {key} |-> IF k = key THEN value ELSE results[k]]

\* The loop moves to the next row, or the method returns results.
LatestAdvance(p, rows, results) ==
    IF rows = <<>>
    THEN /\ ret' = [ret EXCEPT ![p] = ReturnsDict(results)]
         /\ loc' = [loc EXCEPT ![p] = NoLoc]
         /\ pc' = [pc EXCEPT ![p] = "done"]
    ELSE /\ loc' = [loc EXCEPT ![p] =
                      [at |-> "latest", rows |-> rows, results |-> results, row |-> <<>>]]
         /\ pc' = [pc EXCEPT ![p] = "l_run"]
         /\ UNCHANGED ret

\* rows = SELECT * FROM benchmark_runs WHERE id IN (SELECT MAX(id) ...)
LatestRows(p) ==
    /\ pc[p] = "l_rows"
    /\ LatestAdvance(p, SelectLatestRows(db), <<>>)
    /\ UNCHANGED <<db, lock, txn, op, saved, quiet, race, env>>

\* get_benchmark(row['run_id']), first SELECT; a None result is skipped.
LatestGetRun(p) ==
    /\ pc[p] = "l_run"
    /\ LET row == SelectRun(db, Head(loc[p].rows).run_id) IN
       IF RowMissing(row)
       THEN LatestAdvance(p, Tail(loc[p].rows), loc[p].results)
       ELSE /\ loc' = [loc EXCEPT ![p].row = row]
            /\ pc' = [pc EXCEPT ![p] = "l_metrics"]
            /\ UNCHANGED ret
    /\ UNCHANGED <<db, lock, txn, op, saved, quiet, race, env>>

\* get_benchmark(row['run_id']), second SELECT; results[result.protocol] = result
LatestGetMetrics(p) ==
    /\ pc[p] = "l_metrics"
    /\ LET result == StoredResult(loc[p].row[1],
                                  SelectMetrics(db, Head(loc[p].rows).run_id))
       IN  LatestAdvance(p, Tail(loc[p].rows),
                         Put(loc[p].results, result.protocol, result))
    /\ UNCHANGED <<db, lock, txn, op, saved, quiet, race, env>>

----------------------------------------------------------------------------

\* The caller takes the result; the client is free for its next call.
Return(p) ==
    /\ pc[p] \in {"done", "failed"}
    /\ pc' = [pc EXCEPT ![p] = "idle"]
    /\ op' = [op EXCEPT ![p] = NoOp]
    /\ ret' = [ret EXCEPT ![p] = NoRet]
    /\ loc' = [loc EXCEPT ![p] = NoLoc]
    /\ quiet' = [quiet EXCEPT ![p] = TRUE]
    /\ race' = "none"
    /\ UNCHANGED <<db, lock, txn, saved, env>>

Next ==
    \E p \in Procs :
        \/ CallSave(p)
        \/ SaveInsertRun(p)
        \/ SaveInsertMetric(p)
        \/ SaveCommit(p)
        \/ CallDelete(p)
        \/ DeleteRunMetrics(p)
        \/ DeleteRunRow(p)
        \/ DeleteCommit(p)
        \/ WriteBusy(p)
        \/ Interrupt(p)
        \/ CallGet(p)
        \/ GetRun(p)
        \/ GetMetrics(p)
        \/ CallLatest(p)
        \/ LatestRows(p)
        \/ LatestGetRun(p)
        \/ LatestGetMetrics(p)
        \/ Return(p)

Spec == Init /\ [][Next]_vars

----------------------------------------------------------------------------
(* Properties of the metrics store.                                        *)

\* The metrics rows of run_id in a view, in rowid order, as MetricData.
StoredMetrics(view, run_id) ==
    LET rows == WhereRunId(view.metrics, run_id)
    IN  [k \in DOMAIN rows |->
            MetricDataAt(rows[k].request_id, rows[k].request_timestamp,
                         rows[k].response_timestamp, rows[k].latency_seconds)]

HasRun(view, run_id) == \E r \in Range(view.runs) : r.run_id = run_id

Finished(p, name) == pc[p] \in {"done", "failed"} /\ op[p].name = name

\* C1: in every reachable state, after any sequence of save_benchmark and
\* delete_run calls including failed ones, no two rows of benchmark_runs have
\* the same run_id, in the committed database and in every open transaction.
C1_RunIdUnique ==
    \A view \in {db} \cup {txn[p] : p \in Procs} :
        \A i, j \in DOMAIN view.runs :
            i # j => view.runs[i].run_id # view.runs[j].run_id

\* C1 witness: the store holds two runs and a save of a taken run_id failed.
C1_Witness ==
    /\ Len(db.runs) = 2
    /\ \E p \in Procs : Finished(p, "save") /\ ret[p] = Raises("IntegrityError")

\* C2: a save_benchmark whose run_id is already stored fails with an error
\* and leaves the store unchanged: the step on which it meets the stored
\* run_id raises and changes nothing, and the failed call holds no lock and
\* no transaction, so none of its rows is ever persisted.
C2_DuplicateSaveRejected ==
    /\ [][\A p \in Procs :
            (/\ pc[p] = "s_insert"
             /\ pc'[p] # "s_insert"
             /\ HasRun(db, op[p].result.run_id))
            => /\ pc'[p] = "failed"
               /\ ret'[p].kind = "raise"
               /\ db' = db]_vars
    /\ [](\A p \in Procs :
            pc[p] = "failed" => lock # p /\ txn[p] = EmptyDb)

\* C2 witness: a save was rejected with IntegrityError while the stored run
\* of that run_id, saved with other metrics, is still in the store.
C2_Witness ==
    \E p \in Procs :
        /\ Finished(p, "save")
        /\ ret[p] = Raises("IntegrityError")
        /\ op[p].result.metrics # <<>>
        /\ HasRun(db, op[p].result.run_id)
        /\ StoredMetrics(db, op[p].result.run_id) = <<>>

\* C3: save_benchmark is atomic: in every reachable state, also after a call
\* failed or was interrupted between inserting the run row and the commit,
\* the committed store holds for every run row all the metrics that were
\* saved with it, and for a run_id without a run row no metric row.
C3_SaveAtomic ==
    /\ \A r \in Range(db.runs) :
          /\ r.id \in DOMAIN saved
          /\ StoredMetrics(db, r.run_id) = saved[r.id]
    /\ \A run_id \in RunIds :
          ~HasRun(db, run_id) => StoredMetrics(db, run_id) = <<>>

\* C3 witness: a save was interrupted part-way through its metric rows, and
\* the store holds neither its run row nor any of its metric rows.
C3_Witness ==
    \E p \in Procs :
        /\ Finished(p, "save")
        /\ ret[p] = Raises("Interrupted")
        /\ loc[p] = [at |-> "executemany"]
        /\ ~HasRun(db, op[p].result.run_id)
        /\ StoredMetrics(db, op[p].result.run_id) = <<>>

\* Both clients have finished overlapping save_benchmark calls for run_id,
\* and neither was interrupted.
BothSaved(run_id) ==
    /\ race # "none"
    /\ \A p \in Procs :
          /\ Finished(p, "save")
          /\ op[p].result.run_id = run_id
          /\ ret[p] # Raises("Interrupted")

\* Exactly one of the two calls returned an id, and the store holds one run
\* row for run_id with exactly the metric rows of that call.
OneSaveWon(run_id) ==
    \E w \in Procs :
        /\ ret[w].kind = "id"
        /\ \A q \in Procs \ {w} : ret[q].kind = "raise"
        /\ Len(WhereRunId(db.runs, run_id)) = 1
        /\ StoredMetrics(db, run_id) = op[w].result.metrics

\* C4 as stated: whenever two save_benchmark calls for the same run_id
\* overlap, exactly one succeeds and the other fails.
C4_Original ==
    \A run_id \in RunIds : BothSaved(run_id) => OneSaveWon(run_id)

\* C4: when two save_benchmark calls for the same run_id overlap, neither is
\* interrupted and the run_id was not stored when they began, exactly one
\* returns an id and the other raises, and the store then holds one run row
\* for that run_id with exactly the metric rows of the successful call; when
\* the run_id was already stored both calls raise.
C4_RacingSaves ==
    \A run_id \in RunIds :
        BothSaved(run_id)
        => IF race = "new"
           THEN OneSaveWon(run_id)
           ELSE /\ \A p \in Procs : ret[p].kind = "raise"
                /\ Len(WhereRunId(db.runs, run_id)) = 1

\* C4 witness: two overlapping saves of a new run_id with different metrics
\* have finished, the one with metrics failed, and the store has no metrics.
C4_Witness ==
    \E run_id \in RunIds :
        /\ BothSaved(run_id)
        /\ race = "new"
        /\ \E w \in Procs : \E q \in Procs \ {w} :
              /\ ret[w].kind = "id"
              /\ op[w].result.metrics = <<>>
              /\ ret[q].kind = "raise"
              /\ op[q].result.metrics # <<>>
              /\ db.metrics = <<>>

\* C5: the commit of delete_run(run_id) removes the run row and every metric
\* row of run_id from the committed store in one step, leaves every other
\* row as it was, and the call returns true exactly when a run row with that
\* run_id was stored.
C5_DeleteAtomic ==
    [][\A p \in Procs :
         (pc[p] = "d_commit" /\ pc'[p] = "done")
         => LET run_id == op[p].run_id IN
            /\ db'.runs = DeleteWhereRunId(db.runs, run_id)
            /\ db'.metrics = DeleteWhereRunId(db.metrics, run_id)
            /\ ret'[p] = ReturnsBool(HasRun(db, run_id))]_vars

\* C5 witness: a delete returned true for a run that had metrics and the
\* other run, with its metrics, is still stored.
C5_Witness ==
    \E p \in Procs :
        /\ Finished(p, "delete")
        /\ ret[p] = ReturnsBool(TRUE)
        /\ Len(saved) = 2 /\ saved[1] # <<>> /\ saved[2] # <<>>
        /\ Len(db.runs) = 1
        /\ Len(db.metrics) = 2

\* C6: delete_run of a run_id that is not stored returns false and leaves
\* the store unchanged, so total_runs and total_metrics of get_stats are the
\* same before and after.
C6_DeleteMissing ==
    [][\A p \in Procs :
         (pc[p] = "d_commit" /\ pc'[p] = "done" /\ ~HasRun(db, op[p].run_id))
         => /\ ret'[p] = ReturnsBool(FALSE)
            /\ db' = db
            /\ TotalRuns(db') = TotalRuns(db)
            /\ TotalMetrics(db') = TotalMetrics(db)]_vars

\* C6 witness: a delete of a missing run_id returned false on a store that
\* holds another run with metrics.
C6_Witness ==
    \E p \in Procs :
        /\ Finished(p, "delete")
        /\ ret[p] = ReturnsBool(FALSE)
        /\ TotalRuns(db) = 1
        /\ TotalMetrics(db) = 2
        /\ Len(saved) = 1

\* C7: a get_benchmark that overlaps a save_benchmark or delete_run of the
\* same run_id returns not-found or the complete Run: a returned Run carries
\* all the metrics that were saved with it.
C7_GetComplete ==
    \A p \in Procs :
        (Finished(p, "get") /\ ret[p].kind = "run")
        => /\ ret[p].run.id \in DOMAIN saved
           /\ Len(ret[p].run.metrics) = Len(saved[ret[p].run.id])
           /\ \A m \in Range(saved[ret[p].run.id]) : m \in Range(ret[p].run.metrics)

\* C8: get_latest_by_protocol, with no write committed during the call,
\* returns a mapping whose keys are exactly the protocols that have a run in
\* the store, each mapped to the stored run of that protocol with the
\* greatest id, with its metrics.
C8_LatestByProtocol ==
    \A p \in Procs :
        (Finished(p, "latest") /\ quiet[p])
        => /\ ret[p].kind = "dict"
           /\ DOMAIN ret[p].results = {r.protocol : r \in Range(db.runs)}
           /\ \A k \in DOMAIN ret[p].results :
                LET v == ret[p].results[k] IN
                /\ \E r \in Range(db.runs) :
                      /\ r.protocol = k
                      /\ \A x \in Range(db.runs) : x.protocol = k => x.id <= r.id
                      /\ v.id = r.id
                      /\ v.run_id = r.run_id
                      /\ v.protocol = k
                /\ v.id \in DOMAIN saved
                /\ Len(v.metrics) = Len(saved[v.id])
                /\ \A m \in Range(saved[v.id]) : m \in Range(v.metrics)

\* C8 witness: two runs of one protocol are stored and the mapping holds
\* only the second under that protocol.
C8_Witness ==
    \E p \in Procs :
        /\ Finished(p, "latest") /\ quiet[p]
        /\ Len(db.runs) = 2
        /\ db.runs[1].protocol = db.runs[2].protocol
        /\ ret[p].kind = "dict"
        /\ DOMAIN ret[p].results = {db.runs[2].protocol}
        /\ ret[p].results[db.runs[2].protocol].id = 2
        /\ ret[p].results[db.runs[2].protocol].metrics # <<>>

\* C9: get_benchmark, with no write committed during the call, raises no
\* error, returns None when no run with the run_id is stored and returns the
\* stored Run when one is.
C9_GetNotFound ==
    \A p \in Procs :
        (Finished(p, "get") /\ quiet[p])
        => IF HasRun(db, op[p].run_id)
           THEN ret[p].kind = "run" /\ ret[p].run.run_id = op[p].run_id
           ELSE ret[p] = ReturnsNone

\* C9 witness: a get of a run_id that is not stored returned None while
\* another run is stored.
C9_Witness ==
    \E p \in Procs :
        /\ Finished(p, "get") /\ quiet[p]
        /\ ret[p] = ReturnsNone
        /\ db.runs # <<>>

\* C10: the metrics of a Run returned by get_benchmark are in ascending
\* request_id order, whatever their order in the saved Run.
C10_MetricsAscending ==
    \A p \in Procs :
        (Finished(p, "get") /\ ret[p].kind = "run")
        => \A i, j \in DOMAIN ret[p].run.metrics :
              i < j => ret[p].run.metrics[i].request_id
                          < ret[p].run.metrics[j].request_id

\* C10 witness: a run saved with request_ids 3, 0 is returned with 0, 3.
C10_Witness ==
    \E p \in Procs :
        /\ Finished(p, "get")
        /\ ret[p].kind = "run"
        /\ saved[ret[p].run.id] = <<MetricData(3, 1), MetricData(0, 2)>>
        /\ ret[p].run.metrics = <<MetricData(0, 2), MetricData(3, 1)>>

----------------------------------------------------------------------------
(* The store used by one client at a time: every method runs from its      *)
(* first statement to its return before the next call begins.  Runs carry  *)
(* their timestamps.                                                       *)

\* Largest limit and offset passed to get_all_runs.
MaxLimit == 2

Caller == "p1"

\* The runs that the client saves: runs with the defaults stats=None and
\* metadata={}, and runs that carry an entry of metadata and a summary (the
\* store takes stats as given, it does not compute them).
SeqInputs ==
    {BenchmarkResultAt(rid, proto, ts, ms) :
        rid \in RunIds, proto \in Protocols, ts \in Timestamps, ms \in MetricLists}
    \cup {BenchmarkResultWith("r1", "REST", DateTime(9, 5), ms,
                              Some([count |-> 3, min |-> 0, max |-> 3]), md) :
             ms \in MetricLists, md \in Metadata \ {NoMetadata}}

RECURSIVE InsertMetrics(_, _, _)
\* conn.executemany(INSERT INTO metrics ...), all rows
InsertMetrics(view, run_id, metrics) ==
    IF metrics = <<>> THEN view
    ELSE InsertMetrics(InsertMetric(view, run_id, Head(metrics)), run_id, Tail(metrics))

\* The client's call has returned `result`.
Returned(operation, result) ==
    /\ op' = [op EXCEPT ![Caller] = operation]
    /\ ret' = [ret EXCEPT ![Caller] = result]
    /\ pc' = [pc EXCEPT ![Caller] = "done"]
    /\ UNCHANGED <<lock, txn, loc, quiet, race, env>>

\* save_benchmark(result), from the INSERT to the commit or the IntegrityError
SeqSave ==
    \E result \in SeqInputs :
        /\ db.seq < MaxId
        /\ IF UniqueViolation(db, result.run_id)
           THEN /\ Returned([name |-> "save", result |-> result],
                            Raises("IntegrityError"))
                /\ UNCHANGED <<db, saved>>
           ELSE /\ db' = InsertMetrics(InsertRun(db, result), result.run_id,
                                       result.metrics)
                /\ saved' = Append(saved, result.metrics)
                /\ Returned([name |-> "save", result |-> result],
                            ReturnsId(NextRowId(db)))

\* delete_run(run_id)
SeqDelete ==
    \E run_id \in RunIds :
        LET view == DeleteMetrics(db, run_id) IN
        /\ db' = DeleteRuns(view, run_id)
        /\ Returned([name |-> "delete", run_id |-> run_id],
                    ReturnsBool(RowsDeleted(RowCount(view, run_id))))
        /\ UNCHANGED saved

\* get_all_runs(protocol, limit, offset)
SeqGetAllRuns ==
    \E protocol \in Protocols \cup {NoProtocol}, limit, offset \in 0..MaxLimit :
        \E rows \in OrderByTimestampDesc(WhereProtocol(db.runs, protocol)) :
            LET page == LimitOffset(rows, limit, offset) IN
            /\ Returned([name |-> "get_all_runs", protocol |-> protocol,
                         limit |-> limit, offset |-> offset],
                        ReturnsList([k \in DOMAIN page |-> Summary(page[k])]))
            /\ UNCHANGED <<db, saved>>

\* get_stats()
SeqGetStats ==
    /\ Returned([name |-> "get_stats"],
                ReturnsStats([total_runs |-> TotalRuns(db),
                              total_metrics |-> TotalMetrics(db),
                              protocols |-> ProtocolCounts(db)]))
    /\ UNCHANGED <<db, saved>>

\* get_benchmark(run_id)
SeqGet ==
    \E run_id \in RunIds :
        LET row == SelectRun(db, run_id) IN
        /\ Returned([name |-> "get", run_id |-> run_id],
                    IF RowMissing(row) THEN ReturnsNone
                    ELSE ReturnsRun(StoredResult(row[1], SelectMetrics(db, run_id))))
        /\ UNCHANGED <<db, saved>>

SeqNext == SeqSave \/ SeqDelete \/ SeqGetAllRuns \/ SeqGetStats

SeqSpec == Init /\ [][SeqNext]_vars

\* One client that saves, deletes and reads runs back.
RoundTripNext == SeqSave \/ SeqDelete \/ SeqGet

RoundTripSpec == Init /\ [][RoundTripNext]_vars

\* The instant of a stored timestamp text, in tenths of seconds.
Instant(text) == FromIsoFormat(text).sec * 10 + FromIsoFormat(text).usec

\* The stored rows that get_all_runs(protocol, ...) is asked for.
Asked(protocol) ==
    {r \in Range(db.runs) : protocol = NoProtocol \/ r.protocol = protocol}

Least(a, b) == IF a < b THEN a ELSE b

\* C11: get_all_runs(protocol, limit, offset) returns summaries of stored
\* runs, of the given protocol only when one is given, in descending order of
\* timestamp; they are the slice of the full ordered list that starts at
\* offset and has at most limit entries (offset runs that are not older come
\* before it, every other run left out is not newer); no summary has a
\* metrics field.
C11_GetAllRuns ==
    (pc[Caller] = "done" /\ op[Caller].name = "get_all_runs")
    => LET rows == ret[Caller].rows
           asked == Asked(op[Caller].protocol)
           n == Cardinality(asked)
           skipped == Least(op[Caller].offset, n)
           out == {r \in asked : \A k \in DOMAIN rows : rows[k].id # r.id}
       IN  /\ ret[Caller].kind = "list"
           /\ \A k \in DOMAIN rows :
                /\ \E r \in asked : Summary(r) = rows[k]
                /\ "metrics" \notin DOMAIN rows[k]
           /\ \A i, j \in DOMAIN rows :
                i < j => /\ rows[i].id # rows[j].id
                         /\ Instant(rows[i].timestamp) >= Instant(rows[j].timestamp)
           /\ Len(rows) = Least(op[Caller].limit, n - skipped)
           /\ \E before \in SUBSET out :
                /\ Cardinality(before) = skipped
                /\ \A b \in before : \A k \in DOMAIN rows :
                      Instant(b.timestamp) >= Instant(rows[k].timestamp)
                /\ \A a \in out \ before : \A k \in DOMAIN rows :
                      Instant(a.timestamp) <= Instant(rows[k].timestamp)

\* C11 witness: of two stored runs, the one saved first is the newer by a
\* fraction of a second; get_all_runs(limit 2, offset 0) has returned the
\* first-saved run and then the second-saved one.
C11_Witness ==
    /\ pc[Caller] = "done" /\ op[Caller].name = "get_all_runs"
    /\ op[Caller].protocol = NoProtocol
    /\ op[Caller].offset = 0 /\ op[Caller].limit = 2
    /\ Len(db.runs) = 2
    /\ db.runs[1].timestamp = IsoFormat(DateTime(9, 5))
    /\ db.runs[2].timestamp = IsoFormat(DateTime(9, 0))
    /\ Len(ret[Caller].rows) = 2
    /\ ret[Caller].rows[1].id = 1
    /\ ret[Caller].rows[2].id = 2

RECURSIVE SumOver(_, _)
\* The sum of f[x] over the finite set S.
SumOver(f, S) ==
    IF S = {} THEN 0
    ELSE LET x == CHOOSE y \in S : TRUE IN f[x] + SumOver(f, S \ {x})

\* C12: after any sequence of save_benchmark and delete_run calls, get_stats
\* returns total_runs equal to the number of stored runs, total_metrics equal
\* to the sum of the numbers of metrics the stored runs were saved with, and
\* per-protocol counts whose keys are exactly the protocols present and whose
\* sum is total_runs.
C12_GetStats ==
    (pc[Caller] = "done" /\ op[Caller].name = "get_stats")
    => LET stats == ret[Caller].stats
           ids == {r.id : r \in Range(db.runs)}
       IN  /\ stats.total_runs = Cardinality(ids)
           /\ ids \subseteq DOMAIN saved
           /\ stats.total_metrics = SumOver([i \in ids |-> Len(saved[i])], ids)
           /\ DOMAIN stats.protocols = {r.protocol : r \in Range(db.runs)}
           /\ \A k \in DOMAIN stats.protocols : stats.protocols[k] > 0
           /\ SumOver(stats.protocols, DOMAIN stats.protocols) = stats.total_runs

\* C12 witness: after two saves and a delete, one run with two metrics is
\* stored and get_stats reports 1 run, 2 metrics and one protocol.
C12_Witness ==
    /\ pc[Caller] = "done" /\ op[Caller].name = "get_stats"
    /\ Len(saved) = 2
    /\ saved[1] # <<>>
    /\ ret[Caller].stats.total_runs = 1
    /\ ret[Caller].stats.total_metrics = 2
    /\ Cardinality(DOMAIN ret[Caller].stats.protocols) = 1

----------------------------------------------------------------------------
(* The legacy normalizers of utils.py.  A timestamp text keeps the part    *)
(* of "2024-01-01T00:00:SS[.f][Z]" that varies: the two digits of the      *)
(* seconds, an optional fraction and an optional zone suffix, as character *)
(* codes.                                                                  *)

\* Most records in a legacy file, and most elements of respond_ts.
MaxRecords == 3

\* Most samples handed to calculate_statistics directly.
MaxSamples == 3

Text00 == <<48, 48>>
Text01 == <<48, 49>>
Text03 == <<48, 51>>
Text00Z == <<48, 48, 90>>
Text01Z == <<48, 49, 90>>
TextGarbage == <<120>>
UtcOffset == <<43, 48, 48, 58, 48, 48>>

RECURSIVE ReplaceZ(_)
\* text.replace('Z', '+00:00')
ReplaceZ(text) ==
    IF text = <<>> THEN <<>>
    ELSE (IF Head(text) = 90 THEN UtcOffset ELSE <<Head(text)>>)
             \o ReplaceZ(Tail(text))

\* The text ends in a UTC offset: fromisoformat returns an aware datetime.
TzAware(text) ==
    /\ Len(text) > Len(UtcOffset)
    /\ SubSeq(text, Len(text) - Len(UtcOffset) + 1, Len(text)) = UtcOffset

NaivePart(text) ==
    IF TzAware(text) THEN SubSeq(text, 1, Len(text) - Len(UtcOffset)) ELSE text

IsDigit(c) == c \in 48..57

\* datetime.fromisoformat(text) does not raise ValueError.
ValidIsoFormat(text) ==
    LET n == NaivePart(text) IN
    /\ Len(n) \in {2, 4}
    /\ IsDigit(n[1]) /\ IsDigit(n[2])
    /\ Len(n) = 4 => (n[3] = 46 /\ IsDigit(n[4]))

\* (resp_dt - req_dt).total_seconds() for texts of whole seconds, both naive
\* or both aware at offset +00:00.
TotalSeconds_Reversed(req, resp) ==
    FromIsoFormat(NaivePart(req)).sec - FromIsoFormat(NaivePart(resp)).sec

TotalSeconds(req, resp) ==
    FromIsoFormat(NaivePart(resp)).sec - FromIsoFormat(NaivePart(req)).sec

\* item.get(field, ''): the empty text when the key is absent.
Get(item, field) == IF field \in DOMAIN item THEN item[field] ELSE <<>>

RequestId_Dense(idx, emitted) == emitted

\* request_id=idx: the position in the input, whatever was emitted before.
RequestId(idx, emitted) == idx

Parsed(metrics) == [error |-> "none", metrics |-> metrics]
Failed(error) == [error |-> error, metrics |-> <<>>]

RECURSIVE Emit(_, _, _)
\* The loop of a parser over the <<request text, response text>> pairs from
\* 0-based position idx on, with `metrics` emitted so far: a pair with an
\* empty text is passed over; fromisoformat raising ValueError, or the
\* subtraction of a naive and an aware datetime raising TypeError, leaves the
\* loop and the parser.
Emit(pairs, idx, metrics) ==
    IF idx >= Len(pairs) THEN Parsed(metrics)
    ELSE LET req == pairs[idx + 1][1]
             resp == pairs[idx + 1][2]
         IN  IF req = <<>> \/ resp = <<>> THEN Emit(pairs, idx + 1, metrics)
             ELSE IF ~ValidIsoFormat(ReplaceZ(req)) \/ ~ValidIsoFormat(ReplaceZ(resp))
                  THEN Failed("ValueError")
             ELSE IF TzAware(ReplaceZ(req)) # TzAware(ReplaceZ(resp))
                  THEN Failed("TypeError")
             ELSE Emit(pairs, idx + 1,
                       Append(metrics,
                              MetricDataAt(RequestId(idx, Len(metrics)), req, resp,
                                           TotalSeconds(ReplaceZ(req), ReplaceZ(resp)))))

\* An exact rational number.
Fraction(num, den) == [num |-> num, den |-> den]

RECURSIVE Sum(_)
Sum(s) == IF s = <<>> THEN 0 ELSE Head(s) + Sum(Tail(s))

RECURSIVE SortInsert(_, _)
SortInsert(x, sorted) ==
    IF sorted = <<>> THEN <<x>>
    ELSE IF x <= Head(sorted) THEN <<x>> \o sorted
    ELSE <<Head(sorted)>> \o SortInsert(x, Tail(sorted))

Sorted_Unsorted(s) == s

RECURSIVE Sorted(_)
\* The samples in ascending order, as np.percentile and np.median arrange
\* them.
Sorted(s) == IF s = <<>> THEN <<>> ELSE SortInsert(Head(s), Sorted(Tail(s)))

Minimum_First(s) == s[1]

\* np.min
Minimum(s) == CHOOSE x \in Range(s) : \A y \in Range(s) : x <= y

\* np.max
Maximum(s) == CHOOSE x \in Range(s) : \A y \in Range(s) : x >= y

\* np.median: the middle sample, or the mean of the two middle ones.
Median(s) ==
    LET a == Sorted(s)
        n == Len(s)
    IN  Fraction(a[(n + 1) \div 2] + a[(n \div 2) + 1], 2)

\* np.percentile(s, p), linear interpolation at idx = p/100 * (n - 1):
\* a[floor(idx)] + (idx - floor(idx)) * (a[ceil(idx)] - a[floor(idx)]),
\* in hundredths.
Percentile(s, p) ==
    LET a == Sorted(s)
        n == Len(s)
        lo == (p * (n - 1)) \div 100
        rem == (p * (n - 1)) % 100
        hi == IF rem = 0 THEN lo ELSE lo + 1
    IN  Fraction(100 * a[lo + 1] + rem * (a[hi + 1] - a[lo + 1]), 100)

RECURSIVE SumSquares(_)
SumSquares(s) == IF s = <<>> THEN 0 ELSE Head(s) * Head(s) + SumSquares(Tail(s))

\* np.std squared, the population variance mean(x^2) - mean(x)^2; the model
\* keeps the square, which is rational, in place of its root.
Variance(s) ==
    Fraction(Len(s) * SumSquares(s) - Sum(s) * Sum(s), Len(s) * Len(s))

EmptyStats_Percentiles ==
    [mean |-> Fraction(0, 1), median |-> Fraction(0, 1),
     std_dev_sq |-> Fraction(0, 1), min |-> 0, max |-> 0, count |-> 0,
     p50 |-> Fraction(0, 100), p95 |-> Fraction(0, 100), p99 |-> Fraction(0, 100)]

\* BenchmarkStats(mean=0, median=0, std_dev=0, min=0, max=0, count=0): the
\* percentiles keep their default None, shown as absent fields.
EmptyStats ==
    [mean |-> Fraction(0, 1), median |-> Fraction(0, 1),
     std_dev_sq |-> Fraction(0, 1), min |-> 0, max |-> 0, count |-> 0]

\* calculate_statistics(latencies)
calculate_statistics(latencies) ==
    IF latencies = <<>>
    THEN EmptyStats
    ELSE [mean |-> Fraction(Sum(latencies), Len(latencies)),
          median |-> Median(latencies),
          std_dev_sq |-> Variance(latencies),
          min |-> Minimum(latencies), max |-> Maximum(latencies),
          count |-> Len(latencies),
          p50 |-> Percentile(latencies, 50),
          p95 |-> Percentile(latencies, 95),
          p99 |-> Percentile(latencies, 99)]

\* The parsers of import_legacy_results, in its order of files.
Parsers ==
    << [file |-> "grpc_out.txt", tag |-> "grpc", protocol |-> "gRPC",
        req |-> "grpc_requester_timestamp", resp |-> "grpc_responder_timestamp"],
       [file |-> "rest_out.txt", tag |-> "rest", protocol |-> "REST",
        req |-> "request_timestamp", resp |-> "response_timestamp"],
       [file |-> "sio_out.txt", tag |-> "socketio", protocol |-> "Socket.IO",
        req |-> "request_ts", resp |-> "respond_ts"],
       [file |-> "graphql_out.txt", tag |-> "graphql", protocol |-> "GraphQL",
        req |-> "requestTimestamp", resp |-> "responseTimestamp"],
       [file |-> "avro_out.txt", tag |-> "avro", protocol |-> "AVRO",
        req |-> "request_timestamp", resp |-> "response_timestamp"],
       [file |-> "cbor_out.txt", tag |-> "cbor", protocol |-> "CBOR",
        req |-> "request_timestamp", resp |-> "response_timestamp"] >>

SocketIO == 3

\* The Run a parser returns at clock second `now`.
ReturnedRun(parser, now, metrics) ==
    [run_id |-> <<parser.tag, now>>, protocol |-> parser.protocol,
     timestamp |-> DateTime(now, 0), metrics |-> metrics,
     stats |-> Some(calculate_statistics([k \in DOMAIN metrics |->
                                             metrics[k].latency_seconds])),
     metadata |-> NoMetadata]

\* What a call of the k-th parser on `data` at second `now` comes to.
ParserOutcome(k, data, now) ==
    LET parser == Parsers[k]
        pairs == IF k = SocketIO
                 THEN LET responses == IF parser.resp \in DOMAIN data
                                       THEN data[parser.resp] ELSE <<>>
                      IN  [i \in DOMAIN responses |->
                              <<Get(data, parser.req), responses[i]>>]
                 ELSE [i \in DOMAIN data |->
                          <<Get(data[i], parser.req), Get(data[i], parser.resp)>>]
        out == Emit(pairs, 0, <<>>)
    IN  IF out.error # "none" THEN Raises(out.error)
        ELSE ReturnsRun(ReturnedRun(parser, now, out.metrics))

\* The request and response texts of the records of the model: one and three
\* seconds apart, both aware, one aware only, an empty response, an absent
\* response, an absent request, a response that is no timestamp.
Absent == <<0>>

FieldPairs ==
    { <<Text00, Text01>>, <<Text00, Text03>>, <<Text00Z, Text01Z>>,
      <<Text00, Text01Z>>, <<Text00, <<>>>>, <<Text00, Absent>>,
      <<Absent, Text01>>, <<Text00, TextGarbage>> }

Record(parser, req, resp) ==
    [f \in {x \in {parser.req, parser.resp} :
               (x = parser.req /\ req # Absent) \/ (x = parser.resp /\ resp # Absent)}
        |-> IF f = parser.req THEN req ELSE resp]

SeqsUpTo(S, n) == UNION {[1..k -> S] : k \in 0..n}

\* The decoded JSON documents handed to the k-th parser.
Documents(k) ==
    IF k = SocketIO
    THEN {[f \in {Parsers[k].req, Parsers[k].resp} |->
              IF f = Parsers[k].req THEN req ELSE resps] :
            req \in {Text00, Text00Z, <<>>},
            resps \in SeqsUpTo({Text01, Text03, Text01Z, <<>>, TextGarbage}, MaxRecords)}
         \cup {[f \in {Parsers[k].resp} |-> <<Text01>>],
               [f \in {Parsers[k].req} |-> Text00]}
    ELSE SeqsUpTo({Record(Parsers[k], fp[1], fp[2]) : fp \in FieldPairs}, MaxRecords)

\* The sample lists handed to calculate_statistics.
Samples == SeqsUpTo({0 - 1, 0, 1, 3}, MaxSamples)

\* The calls of the model: a parser on a document, or calculate_statistics
\* on a sample list.
ListCalls ==
    UNION {{[name |-> "parse", parser |-> k, data |-> d] : d \in Documents(k)} :
              k \in DOMAIN Parsers \ {SocketIO}}

SocketIOCalls ==
    {[name |-> "parse", parser |-> SocketIO, data |-> d] : d \in Documents(SocketIO)}

StatisticsCalls ==
    {[name |-> "calculate_statistics", latencies |-> s] : s \in Samples}

ParseInit ==
    /\ db = EmptyDb
    /\ lock = NoProc
    /\ txn = [p \in Procs |-> EmptyDb]
    /\ pc = [p \in Procs |-> "idle"]
    /\ \/ \E c \in ListCalls : op = [p \in Procs |-> IF p = Caller THEN c ELSE NoOp]
       \/ \E c \in SocketIOCalls : op = [p \in Procs |-> IF p = Caller THEN c ELSE NoOp]
       \/ \E c \in StatisticsCalls : op = [p \in Procs |-> IF p = Caller THEN c ELSE NoOp]
    /\ loc = [p \in Procs |-> NoLoc]
    /\ ret = [p \in Procs |-> NoRet]
    /\ saved = <<>>
    /\ quiet = [p \in Procs |-> TRUE]
    /\ race = "none"
    /\ env = [clock |-> 0]

\* parse_legacy_grpc, _rest, _graphql, _avro, _cbor
ParseList ==
    /\ pc[Caller] = "idle"
    /\ op[Caller].name = "parse" /\ op[Caller].parser # SocketIO
    /\ Returned(op[Caller], ParserOutcome(op[Caller].parser, op[Caller].data, env.clock))
    /\ UNCHANGED <<db, saved>>

\* parse_legacy_socketio
ParseSocketIO ==
    /\ pc[Caller] = "idle"
    /\ op[Caller].name = "parse" /\ op[Caller].parser = SocketIO
    /\ Returned(op[Caller], ParserOutcome(SocketIO, op[Caller].data, env.clock))
    /\ UNCHANGED <<db, saved>>

\* calculate_statistics
CalculateStatistics ==
    /\ pc[Caller] = "idle"
    /\ op[Caller].name = "calculate_statistics"
    /\ Returned(op[Caller], ReturnsStats(calculate_statistics(op[Caller].latencies)))
    /\ UNCHANGED <<db, saved>>

ParseNext == ParseList \/ ParseSocketIO \/ CalculateStatistics

ParseSpec == ParseInit /\ [][ParseNext]_vars

\* The call of a list parser, or of the Socket.IO parser, has ended.
ListParsed ==
    pc[Caller] = "done" /\ op[Caller].name = "parse" /\ op[Caller].parser # SocketIO

SocketIOParsed ==
    pc[Caller] = "done" /\ op[Caller].name = "parse" /\ op[Caller].parser = SocketIO

\* The seconds that the timestamp texts of the model stand for.
SecondsOf(text) ==
    IF text \in {Text00, Text00Z} THEN 0
    ELSE IF text \in {Text01, Text01Z} THEN 1
    ELSE 3

NaiveTexts == {Text00, Text01, Text03}

\* The request and response texts of the record at 0-based position i of the
\* list that the parser was called on; absent counts as empty.
ReqText(i) ==
    LET item == op[Caller].data[i + 1]
        field == Parsers[op[Caller].parser].req
    IN  IF field \in DOMAIN item THEN item[field] ELSE <<>>

RespText(i) ==
    LET item == op[Caller].data[i + 1]
        field == Parsers[op[Caller].parser].resp
    IN  IF field \in DOMAIN item THEN item[field] ELSE <<>>

Positions == {i - 1 : i \in DOMAIN op[Caller].data}

Ascending(metrics) ==
    \A i, j \in DOMAIN metrics : i < j => metrics[i].request_id < metrics[j].request_id

C14_MalformedSkipped ==
    (/\ ListParsed
     /\ \A i \in Positions :
            /\ ReqText(i) \in NaiveTexts \cup {<<>>, TextGarbage}
            /\ RespText(i) \in NaiveTexts \cup {<<>>, TextGarbage})
    => /\ ret[Caller].kind = "run"
       /\ {m.request_id : m \in Range(ret[Caller].run.metrics)}
            = {i \in Positions : ReqText(i) \in NaiveTexts /\ RespText(i) \in NaiveTexts}

MetricReq(i) ==
    IF op[Caller].parser = SocketIO THEN op[Caller].data["request_ts"] ELSE ReqText(i)

MetricResp(i) ==
    IF op[Caller].parser = SocketIO THEN op[Caller].data["respond_ts"][i + 1]
    ELSE RespText(i)

\* C16: the stats of a Run returned by any legacy parser are computed over
\* exactly its Metrics: count is their number, min and max are the smallest
\* and largest latency_seconds among them, and each latency_seconds is the
\* response instant minus the request instant.
C16_StatsOverMetrics ==
    (pc[Caller] = "done" /\ op[Caller].name = "parse" /\ ret[Caller].kind = "run")
    => LET metrics == ret[Caller].run.metrics
           stats == ret[Caller].run.stats[1]
           lats == {m.latency_seconds : m \in Range(metrics)}
       IN  /\ stats.count = Len(metrics)
           /\ \A m \in Range(metrics) :
                m.latency_seconds = SecondsOf(MetricResp(m.request_id))
                                      - SecondsOf(MetricReq(m.request_id))
           /\ metrics # <<>>
                => /\ stats.min \in lats /\ \A x \in lats : stats.min <= x
                   /\ stats.max \in lats /\ \A x \in lats : stats.max >= x
                   /\ stats.mean.num = Sum([k \in DOMAIN metrics |->
                                              metrics[k].latency_seconds])
                   /\ stats.mean.den = Len(metrics)

\* C16 witness: the REST parser, given one record whose timestamps are one
\* second apart, has returned one Metric of latency 1 and stats with
\* mean = median = min = max = 1 and count = 1.
C16_Witness ==
    /\ ListParsed
    /\ Parsers[op[Caller].parser].tag = "rest"
    /\ Len(op[Caller].data) = 1
    /\ ret[Caller].kind = "run"
    /\ ret[Caller].run.metrics = <<MetricData(0, 1)>>
    /\ ret[Caller].run.stats[1].count = 1
    /\ ret[Caller].run.stats[1].min = 1 /\ ret[Caller].run.stats[1].max = 1
    /\ ret[Caller].run.stats[1].mean.num = ret[Caller].run.stats[1].mean.den
    /\ ret[Caller].run.stats[1].median.num = ret[Caller].run.stats[1].median.den

\* C20: for every non-empty sample list, calculate_statistics returns
\* min <= p50 <= p95 <= p99 <= max (the percentiles in hundredths), and p50,
\* the interpolation at the middle, is the median.
C20_PercentilesOrdered ==
    (/\ pc[Caller] = "done" /\ op[Caller].name = "calculate_statistics"
     /\ op[Caller].latencies # <<>>)
    => LET stats == ret[Caller].stats
       IN  /\ stats.p50.den = 100 /\ stats.p95.den = 100 /\ stats.p99.den = 100
           /\ 100 * stats.min <= stats.p50.num
           /\ stats.p50.num <= stats.p95.num
           /\ stats.p95.num <= stats.p99.num
           /\ stats.p99.num <= 100 * stats.max
           /\ stats.p50.num * stats.median.den = stats.median.num * stats.p50.den
           /\ \A x \in Range(op[Caller].latencies) : stats.min <= x /\ x <= stats.max

\* C20 witness: for the samples 3, 0, 1 the percentiles are 1, 2.8 and 2.96,
\* between the minimum 0 and the maximum 3.
C20_Witness ==
    /\ pc[Caller] = "done" /\ op[Caller].name = "calculate_statistics"
    /\ op[Caller].latencies = <<3, 0, 1>>
    /\ ret[Caller].stats.min = 0 /\ ret[Caller].stats.max = 3
    /\ ret[Caller].stats.p50.num = 100
    /\ ret[Caller].stats.p95.num = 280
    /\ ret[Caller].stats.p99.num = 296

----------------------------------------------------------------------------
(* The import of the legacy files: import_legacy_results reads the files   *)
(* of a directory, and the import command saves every returned Run.  One   *)
(* client at a time; other writers show only as a save that finds the      *)
(* database locked for longer than the timeout.                            *)

\* Most import commands run, and the last second of the clock.
MaxImports == 2
MaxClock == 1

Files == {Parsers[k].file : k \in DOMAIN Parsers}

\* What a legacy file can be: not there, there but not readable, readable
\* but no JSON document, or the JSON document of one benchmark record.
FileKinds == {"missing", "unreadable", "invalid", "json"}

\* The loop treats every file alike: the directories of the model have a
\* list file in the middle, the Socket.IO file and the last file in every
\* state, and the other files either missing or well formed.
AnyKind == {"rest_out.txt", "sio_out.txt", "cbor_out.txt"}

Directories ==
    {d \in [Files -> FileKinds] :
        \A f \in Files \ AnyKind : d[f] \in {"missing", "json"}}

\* The document of a well-formed file: one request answered a second later.
GoodDocument(k) ==
    IF k = SocketIO
    THEN [f \in {Parsers[k].req, Parsers[k].resp} |->
             IF f = Parsers[k].req THEN Text00 ELSE <<Text01>>]
    ELSE <<Record(Parsers[k], Text00, Text01)>>

\* The subclasses of Exception that the body of the try can raise.
Exceptions == {"PermissionError", "JSONDecodeError", "ValueError", "TypeError"}

Caught_JsonOnly(error) == error = "JSONDecodeError"

\* except Exception as e:
Caught(error) == error \in Exceptions

\* The body of the try for the k-th file: open, json.load, parser_func.
TryFile(k, kind, now) ==
    IF kind = "unreadable" THEN Raises("PermissionError")
    ELSE IF kind = "invalid" THEN Raises("JSONDecodeError")
    ELSE ParserOutcome(k, GoodDocument(k), now)

RECURSIVE ImportFrom(_, _, _, _)
\* The loop over parsers.items() from the k-th entry on.
ImportFrom(k, files, now, results) ==
    IF k > Len(Parsers) THEN [error |-> "none", results |-> results]
    ELSE IF files[Parsers[k].file] = "missing"
         THEN ImportFrom(k + 1, files, now, results)
    ELSE LET out == TryFile(k, files[Parsers[k].file], now)
         IN  IF out.kind = "raise"
             THEN IF Caught(out.error)
                  THEN ImportFrom(k + 1, files, now, results)
                  ELSE [error |-> out.error, results |-> results]
             ELSE ImportFrom(k + 1, files, now, Append(results, out.run))

import_legacy_results(files, now) == ImportFrom(1, files, now, <<>>)

ImportInit ==
    /\ db = EmptyDb
    /\ lock = NoProc
    /\ txn = [p \in Procs |-> EmptyDb]
    /\ pc = [p \in Procs |-> "idle"]
    /\ op = [p \in Procs |-> NoOp]
    /\ loc = [p \in Procs |-> NoLoc]
    /\ ret = [p \in Procs |-> NoRet]
    /\ saved = <<>>
    /\ quiet = [p \in Procs |-> TRUE]
    /\ race = "none"
    /\ \E d \in Directories : env = [clock |-> 0, imports |-> 0, files |-> d]

\* The import command up to its loop: results = import_legacy_results(dir).
ImportCommand ==
    /\ pc[Caller] \in {"idle", "done", "failed"}
    /\ env.imports < MaxImports
    /\ env' = [env EXCEPT !.imports = @ + 1]
    /\ op' = [op EXCEPT ![Caller] = [name |-> "import"]]
    /\ LET out == import_legacy_results(env.files, env.clock) IN
       IF out.error # "none"
       THEN /\ pc' = [pc EXCEPT ![Caller] = "failed"]
            /\ ret' = [ret EXCEPT ![Caller] = Raises(out.error)]
            /\ loc' = [loc EXCEPT ![Caller] = NoLoc]
       ELSE /\ pc' = [pc EXCEPT ![Caller] =
                         IF out.results = <<>> THEN "done" ELSE "i_save"]
            /\ ret' = [ret EXCEPT ![Caller] = NoRet]
            /\ loc' = [loc EXCEPT ![Caller] =
                          [at |-> "save", results |-> out.results, i |-> 1]]
    /\ UNCHANGED <<db, lock, txn, saved, quiet, race>>

\* One turn of `for result in results: storage.save_benchmark(result)`: an
\* IntegrityError leaves the loop and the command.
ImportSave ==
    /\ pc[Caller] = "i_save"
    /\ LET result == loc[Caller].results[loc[Caller].i] IN
       IF UniqueViolation(db, result.run_id)
       THEN /\ pc' = [pc EXCEPT ![Caller] = "failed"]
            /\ ret' = [ret EXCEPT ![Caller] = Raises("IntegrityError")]
            /\ UNCHANGED <<db, saved, loc>>
       ELSE /\ db' = InsertMetrics(InsertRun(db, result), result.run_id,
                                   result.metrics)
            /\ saved' = Append(saved, result.metrics)
            /\ IF loc[Caller].i = Len(loc[Caller].results)
               THEN /\ pc' = [pc EXCEPT ![Caller] = "done"]
                    /\ ret' = [ret EXCEPT ![Caller] = ReturnsNone]
                    /\ UNCHANGED loc
               ELSE /\ loc' = [loc EXCEPT ![Caller].i = @ + 1]
                    /\ UNCHANGED <<pc, ret>>
    /\ UNCHANGED <<lock, txn, op, quiet, race, env>>

\* The same turn when another process holds the write lock for longer than
\* the connection's timeout: OperationalError leaves the loop as well.
ImportSaveBusy ==
    /\ pc[Caller] = "i_save"
    /\ pc' = [pc EXCEPT ![Caller] = "failed"]
    /\ ret' = [ret EXCEPT ![Caller] = Raises("OperationalError")]
    /\ quiet' = [quiet EXCEPT ![Caller] = FALSE]
    /\ UNCHANGED <<db, lock, txn, op, loc, saved, race, env>>

\* A second passes.  Only the parsers read the clock, so a second that
\* passes during the loop shows as one that passes after it.
Tick ==
    /\ pc[Caller] # "i_save"
    /\ env.clock < MaxClock
    /\ env' = [env EXCEPT !.clock = @ + 1]
    /\ UNCHANGED <<db, lock, txn, pc, op, loc, ret, saved, quiet, race>>

ImportNext == ImportCommand \/ ImportSave \/ ImportSaveBusy \/ Tick

ImportSpec == ImportInit /\ [][ImportNext]_vars

\* The import command has ended, by return or by exception.
ImportEnded == op[Caller].name = "import" /\ pc[Caller] \in {"done", "failed"}

\* C17: the batch import processes every item: when the command has ended,
\* every Run of the batch other than one whose own save failed is in the
\* store.
C17_BatchContinues ==
    (ImportEnded /\ loc[Caller].at = "save")
    => \A k \in DOMAIN loc[Caller].results :
          (pc[Caller] = "failed" /\ k = loc[Caller].i)
          \/ HasRun(db, loc[Caller].results[k].run_id)

\* The parsers whose files hold a JSON document.
Readable == {k \in DOMAIN Parsers : env.files[Parsers[k].file] = "json"}

C19_ReimportIdempotent ==
    (ImportEnded /\ env.imports = 2 /\ quiet[Caller])
    => /\ pc[Caller] = "done"
       /\ \A i, j \in DOMAIN db.runs :
             i # j => db.runs[i].protocol # db.runs[j].protocol

----------------------------------------------------------------------------
(* Further claims about the statistics calculator.                         *)

\* C21: calculate_statistics on an empty sequence raises no error and
\* returns count = 0, mean = median = std_dev = min = max = 0, and p50, p95
\* and p99 unset.
C21_EmptyStatistics ==
    (/\ pc[Caller] = "done" /\ op[Caller].name = "calculate_statistics"
     /\ op[Caller].latencies = <<>>)
    => /\ ret[Caller].kind = "stats"
       /\ ret[Caller].stats.count = 0
       /\ ret[Caller].stats.mean.num = 0
       /\ ret[Caller].stats.median.num = 0
       /\ ret[Caller].stats.std_dev_sq.num = 0
       /\ ret[Caller].stats.min = 0 /\ ret[Caller].stats.max = 0
       /\ DOMAIN ret[Caller].stats \cap {"p50", "p95", "p99"} = {}

\* C21 witness: calculate_statistics has returned for the empty sequence,
\* with count 0.
C21_Witness ==
    /\ pc[Caller] = "done" /\ op[Caller].name = "calculate_statistics"
    /\ op[Caller].latencies = <<>>
    /\ ret[Caller].kind = "stats"
    /\ ret[Caller].stats.count = 0

----------------------------------------------------------------------------
(* Further claims about the store used by one client at a time.            *)

\* The metrics list `got` holds the metrics of `given`, by ascending
\* request_id.
SameMetricsSorted(given, got) ==
    /\ Len(got) = Len(given)
    /\ Range(got) = Range(given)
    /\ Ascending(got)

----------------------------------------------------------------------------
(* Further claims about the store under concurrent clients.                *)

\* Every committed metrics row belongs to a committed run.
NoOrphans(view) == \A m \in Range(view.metrics) : HasRun(view, m.run_id)

\* C25: in every committed state reached by interleaved save_benchmark and
\* delete_run calls every metrics row has a run_id that exists in
\* benchmark_runs, and the committed metrics of a run_id become fewer only on
\* the commit of a delete_run of that run_id.
C25_NoOrphanedMetrics ==
    [][/\ NoOrphans(db) /\ NoOrphans(db')
       /\ \A r \in RunIds :
            Len(WhereRunId(db'.metrics, r)) < Len(WhereRunId(db.metrics, r))
            => \E p \in Procs :
                  /\ pc[p] = "d_commit" /\ pc'[p] = "done"
                  /\ op[p].run_id = r]_vars

\* C25 witness: two runs were saved, one with metrics, and a delete_run has
\* removed the other: the store holds one run and its two metrics.
C25_Witness ==
    /\ Len(saved) = 2
    /\ Len(db.runs) = 1 /\ Len(db.metrics) = 2
    /\ \E p \in Procs : Finished(p, "delete") /\ ret[p] = ReturnsBool(TRUE)

\* C26: a get_latest_by_protocol that overlaps writers returns a mapping
\* that matches the store at one instant of the call.  A run that is in the
\* store when the call returns and has a smaller id than a row the call
\* selected was stored at every instant of the call, so at whichever instant
\* the mapping matches, its protocol is a key: on the step on which the call
\* returns after finding its last row gone, every such older run's protocol
\* is in the mapping.
C26_LatestSnapshot ==
    [][\A p \in Procs :
          (pc[p] = "l_run" /\ pc'[p] = "done")
          => \A r \in Range(db.runs) :
                r.id < Head(loc[p].rows).id
                => r.protocol \in DOMAIN ret'[p].results]_vars

\* C27: surrogate ids grow with insertion order and are never reused: the
\* n-th successful save_benchmark returns the id n, which is greater than
\* the id of every stored run and than every id returned before, also when
\* the run with the greatest id was deleted in between; the stored runs are
\* in order of their ids, so that the greatest id of a protocol is that of
\* its most recently inserted run.
C27_IdsGrow ==
    [][(op'[Caller].name = "save" /\ ret'[Caller].kind = "id" /\ saved' # saved)
       => /\ ret'[Caller].id = Len(saved) + 1
          /\ \A r \in Range(db.runs) : r.id < ret'[Caller].id
          /\ db'.runs[Len(db'.runs)].id = ret'[Caller].id
          /\ \A i, j \in DOMAIN db'.runs :
                i < j => db'.runs[i].id < db'.runs[j].id]_vars

\* C27 witness: the first run was saved under id 1 and deleted, and the
\* save after that has returned id 2 for the only run now stored.
C27_Witness ==
    /\ pc[Caller] = "done" /\ op[Caller].name = "save"
    /\ ret[Caller] = ReturnsId(2)
    /\ Len(saved) = 2
    /\ Len(db.runs) = 1
    /\ db.runs[1].id = 2

----------------------------------------------------------------------------
(* The exporters, and the export command of the CLI.  A file is None when  *)
(* it does not exist and otherwise the sequence of the chunks written to   *)
(* it; the default destination exports/<run_id>.<format> is the pair of    *)
(* run_id and format.                                                      *)

\* --format choices=["csv", "json", "html", "excel"]
Formats == {"csv", "json", "html", "excel"}

Paths == RunIds \X Formats

\* str(n) of a small natural number, as character codes.
Str(n) ==
    IF n < 10 THEN <<48 + n>> ELSE <<48 + (n \div 10), 48 + (n % 10)>>

\* str(x) of a float that holds a whole number: "1.0".
FloatStr(n) == Str(n) \o <<46, 48>>

CsvHeader ==
    <<"request_id", "request_timestamp", "response_timestamp", "latency_seconds">>

\* writer.writerow([metric.request_id, ...]): every field through str().
CsvRow(metric) ==
    <<Str(metric.request_id), metric.request_timestamp,
      metric.response_timestamp, FloatStr(metric.latency_seconds)>>

CsvChunks_BodyOnly(result) ==
    [k \in DOMAIN result.metrics |-> CsvRow(result.metrics[k])]

\* The rows that to_csv writes, one writerow each.
CsvChunks(result) ==
    <<CsvHeader>> \o [k \in DOMAIN result.metrics |-> CsvRow(result.metrics[k])]

\* The pieces that json.dump hands to f.write, one for every key of
\* result.dict(); default=str writes the datetime.
JsonChunks(result) ==
    << <<"id", result.id>>, <<"run_id", result.run_id>>,
       <<"protocol", result.protocol>>,
       <<"timestamp", IsoFormat(result.timestamp)>>,
       <<"metrics", result.metrics>>, <<"stats", result.stats>>,
       <<"metadata", result.metadata>> >>

\* html_content, handed to f.write in one piece.
HtmlChunks(results) ==
    << [title |-> "Benchmark Report",
        sections |-> [k \in DOMAIN results |->
                         <<results[k].protocol, results[k].run_id,
                           results[k].stats # None>>]] >>

\* What the exporter of a format writes for a run.
Chunks(format, result) ==
    IF format = "csv" THEN CsvChunks(result)
    ELSE IF format = "json" THEN JsonChunks(result)
    ELSE HtmlChunks(<<result>>)

\* save_benchmark(result) on a store that has no run of that run_id.
Saved(view, result) ==
    InsertMetrics(InsertRun(view, result), result.run_id, result.metrics)

\* get_benchmark(run_id) by a client that is alone: None or the Run.
get_benchmark(view, run_id) ==
    LET row == SelectRun(view, run_id) IN
    IF RowMissing(row) THEN None
    ELSE Some(StoredResult(row[1], SelectMetrics(view, run_id)))

\* The stores that the command meets: empty, or holding one saved run.
Stores == {EmptyDb} \cup {Saved(EmptyDb, result) : result \in Inputs}

\* A run exported earlier, whose artifacts may lie at the destinations.
OldRun ==
    [id |-> 1, run_id |-> "r1", protocol |-> "REST", timestamp |-> DateTime(9, 0),
     metrics |-> <<>>, stats |-> None, metadata |-> NoMetadata]

\* The directories that the command meets: no file, or an earlier artifact
\* at every destination that an exporter writes.
Disks ==
    { [path \in Paths |-> None],
      [path \in Paths |->
          IF path[2] = "excel" THEN None ELSE Some(Chunks(path[2], OldRun))] }

ExportInit ==
    /\ db \in Stores
    /\ lock = NoProc
    /\ txn = [p \in Procs |-> EmptyDb]
    /\ pc = [p \in Procs |-> "idle"]
    /\ op = [p \in Procs |-> NoOp]
    /\ loc = [p \in Procs |-> NoLoc]
    /\ ret = [p \in Procs |-> NoRet]
    /\ saved = <<>>
    /\ quiet = [p \in Procs |-> TRUE]
    /\ race = "none"
    /\ \E disk \in Disks : env = [clock |-> 0, fs |-> disk]

Exit(status) == [kind |-> "exit", status |-> status]
Printed(path) == [kind |-> "printed", text |-> "Exported to", path |-> path]

\* The command `export run_id --format format`, up to the exporter's call:
\* an unknown run ends it with exit status 1, and for excel no exporter is
\* called.
ExportCommand ==
    \E run_id \in RunIds, format \in Formats :
        LET result == get_benchmark(db, run_id)
            path == <<run_id, format>>
        IN  /\ pc[Caller] = "idle"
            /\ op' = [op EXCEPT ![Caller] =
                         [name |-> "export", run_id |-> run_id, format |-> format,
                          path |-> path]]
            /\ IF result = None
               THEN /\ pc' = [pc EXCEPT ![Caller] = "failed"]
                    /\ ret' = [ret EXCEPT ![Caller] = Exit(1)]
                    /\ UNCHANGED loc
               ELSE /\ pc' = [pc EXCEPT ![Caller] =
                                 IF format = "excel" THEN "x_print" ELSE "x_open"]
                    /\ loc' = [loc EXCEPT ![Caller] =
                                  [at |-> "export", result |-> result[1],
                                   before |-> env.fs[path],
                                   chunks |-> IF format = "excel" THEN <<>>
                                              ELSE Chunks(format, result[1]),
                                   i |-> 1]]
                    /\ UNCHANGED ret
            /\ UNCHANGED <<db, lock, txn, saved, quiet, race, env>>

\* MetricsExporter.to_csv(result, path) called with a Run of the caller's.
CallToCsv ==
    \E result \in Inputs :
        LET path == <<result.run_id, "csv">> IN
        /\ pc[Caller] = "idle"
        /\ op' = [op EXCEPT ![Caller] =
                     [name |-> "to_csv", result |-> result, format |-> "csv",
                      path |-> path]]
        /\ pc' = [pc EXCEPT ![Caller] = "x_open"]
        /\ loc' = [loc EXCEPT ![Caller] =
                      [at |-> "export", result |-> result, before |-> env.fs[path],
                       chunks |-> CsvChunks(result), i |-> 1]]
        /\ UNCHANGED <<db, lock, txn, ret, saved, quiet, race, env>>

\* output_file.parent.mkdir(...); open(output_file, 'w'): the file exists
\* and is empty.
ExportOpen ==
    /\ pc[Caller] = "x_open"
    /\ env' = [env EXCEPT !.fs[op[Caller].path] = Some(<<>>)]
    /\ pc' = [pc EXCEPT ![Caller] = "x_write"]
    /\ UNCHANGED <<db, lock, txn, op, loc, ret, saved, quiet, race>>

\* The destination cannot be created or opened: OSError, nothing written.
ExportOpenFails ==
    /\ pc[Caller] = "x_open"
    /\ pc' = [pc EXCEPT ![Caller] = "failed"]
    /\ ret' = [ret EXCEPT ![Caller] = Raises("OSError")]
    /\ UNCHANGED <<db, lock, txn, op, loc, saved, quiet, race, env>>

\* One write of the exporter; after the last one the file is closed and the
\* exporter returns, to the command's print or to its caller.
ExportWrite ==
    /\ pc[Caller] = "x_write"
    /\ IF loc[Caller].i > Len(loc[Caller].chunks)
       THEN /\ pc' = [pc EXCEPT ![Caller] =
                         IF op[Caller].name = "export" THEN "x_print" ELSE "done"]
            /\ ret' = [ret EXCEPT ![Caller] =
                          IF op[Caller].name = "export" THEN ret[Caller]
                          ELSE ReturnsNone]
            /\ UNCHANGED <<loc, env>>
       ELSE /\ env' = [env EXCEPT !.fs[op[Caller].path] =
                          Some(Append(@[1], loc[Caller].chunks[loc[Caller].i]))]
            /\ loc' = [loc EXCEPT ![Caller].i = @ + 1]
            /\ UNCHANGED <<pc, ret>>
    /\ UNCHANGED <<db, lock, txn, op, saved, quiet, race>>

\* A write fails (the disk is full) or the exporter is interrupted: the
\* with statement closes the file with what was written so far.
ExportWriteFails ==
    /\ pc[Caller] = "x_write"
    /\ pc' = [pc EXCEPT ![Caller] = "failed"]
    /\ ret' = [ret EXCEPT ![Caller] = Raises("OSError")]
    /\ UNCHANGED <<db, lock, txn, op, loc, saved, quiet, race, env>>

\* print(f"Exported to {output_path}")
ExportPrint ==
    /\ pc[Caller] = "x_print"
    /\ pc' = [pc EXCEPT ![Caller] = "done"]
    /\ ret' = [ret EXCEPT ![Caller] = Printed(op[Caller].path)]
    /\ UNCHANGED <<db, lock, txn, op, loc, saved, quiet, race, env>>

ExportNext ==
    \/ ExportCommand \/ CallToCsv \/ ExportOpen \/ ExportOpenFails
    \/ ExportWrite \/ ExportWriteFails \/ ExportPrint

ExportSpec == ExportInit /\ [][ExportNext]_vars

\* to_csv has returned: to its caller, or to the export command.
CsvWritten ==
    /\ op[Caller].name \in {"to_csv", "export"}
    /\ op[Caller].format = "csv"
    /\ pc[Caller] \in {"done", "x_print"}

\* C22: when to_csv has returned, the file holds the header row and then
\* exactly one row per Metric of the Run, in the order of the Run's metrics
\* list, each with the metric's four fields as text; for a Run without
\* metrics it holds the header only, and no error was raised.
C22_CsvRows ==
    CsvWritten
    => LET file == env.fs[op[Caller].path]
           metrics == loc[Caller].result.metrics
       IN  /\ file # None
           /\ Len(file[1]) = 1 + Len(metrics)
           /\ file[1][1] = <<"request_id", "request_timestamp",
                             "response_timestamp", "latency_seconds">>
           /\ \A k \in DOMAIN metrics :
                /\ file[1][k + 1][1] = Str(metrics[k].request_id)
                /\ file[1][k + 1][2] = metrics[k].request_timestamp
                /\ file[1][k + 1][3] = metrics[k].response_timestamp
                /\ file[1][k + 1][4] = FloatStr(metrics[k].latency_seconds)
           /\ ret[Caller].kind # "raise"

\* C22 witness: to_csv, called with a Run whose metrics have request_id 3 and
\* then 0, has written three rows; and it has written the header alone for a
\* Run without metrics.
C22_Witness ==
    /\ CsvWritten
    /\ op[Caller].name = "to_csv"
    /\ Len(op[Caller].result.metrics) = 2
    /\ op[Caller].result.metrics[1].request_id = 3
    /\ Len(env.fs[op[Caller].path][1]) = 3
    /\ env.fs[op[Caller].path][1][2][1] = Str(3)
    /\ env.fs[op[Caller].path][1][3][1] = Str(0)

\* An exporter's call has ended, by return or by exception.
ExporterEnded ==
    /\ op[Caller].name \in {"to_csv", "export"}
    /\ op[Caller].format # "excel"
    /\ loc[Caller].at = "export"
    /\ pc[Caller] \in {"done", "failed", "x_print"}

\* C23: an export that fails or is interrupted leaves no partial file: when
\* to_csv, to_json or to_html_report has ended, the destination holds the
\* complete artifact or is as it was before the call.
C23_NoPartialFile ==
    ExporterEnded
    => \/ env.fs[op[Caller].path] = Some(loc[Caller].chunks)
       \/ env.fs[op[Caller].path] = loc[Caller].before

\* C30: the export command prints "Exported to <path>" only when the file at
\* that path exists, for every format it accepts; and for a run_id that is
\* not stored it writes nothing and exits with status 1.
C30_ExportedMeansWritten ==
    op[Caller].name = "export"
    => /\ ret[Caller].kind = "printed" => env.fs[op[Caller].path] # None
       /\ ~HasRun(db, op[Caller].run_id)
            => /\ ret[Caller] = Exit(1)
               /\ env.fs \in Disks

----------------------------------------------------------------------------
(* The Socket.IO requester: the handler of GET /send-timestamp, the event  *)
(* handler timestamp_response and the module's globals timestamp_list and  *)
(* timestamps_received_event; the responder answers every request with     *)
(* EXPECTED_RESPONSES events.  A request_ts is shown as the number of the   *)
(* invocation that made it, and a response as the number of the request it *)
(* answers.                                                                *)

\* EXPECTED_RESPONSES and the responder's range(1000), scaled down; the most
\* invocations of send_timestamp.
ExpectedResponses == 2
MaxCalls == 2

Calls == 1..MaxCalls

SioInit ==
    /\ db = EmptyDb
    /\ lock = NoProc
    /\ txn = [p \in Procs |-> EmptyDb]
    /\ pc = [p \in Procs |-> "idle"]
    /\ op = [p \in Procs |-> NoOp]
    /\ loc = [p \in Procs |-> NoLoc]
    /\ ret = [p \in Procs |-> NoRet]
    /\ saved = <<>>
    /\ quiet = [p \in Procs |-> TRUE]
    /\ race = "none"
    /\ env = [clock |-> 0, timestamp_list |-> <<>>, event |-> FALSE,
              calls |-> 0, pending |-> [c \in Calls |-> 0]]

\* send_timestamp up to its wait: the globals are reset, request_ts is
\* taken and the request is emitted; the responder will answer it with
\* ExpectedResponses events.
SendTimestamp(p) ==
    /\ pc[p] = "idle"
    /\ env.calls < MaxCalls
    /\ LET call == env.calls + 1 IN
       /\ env' = [env EXCEPT !.timestamp_list = <<>>, !.event = FALSE,
                             !.calls = call,
                             !.pending[call] = ExpectedResponses]
       /\ op' = [op EXCEPT ![p] = [name |-> "send_timestamp", request_ts |-> call]]
    /\ pc' = [pc EXCEPT ![p] = "t_wait"]
    /\ UNCHANGED <<db, lock, txn, loc, ret, saved, quiet, race>>

\* The responder emits its next timestamp_response for request `call` and
\* the requester's handler runs: the timestamp is appended to the global
\* list, whichever invocation is waiting, and the event is set once the list
\* is long enough.
TimestampResponse(call) ==
    /\ env.pending[call] > 0
    /\ LET list == Append(env.timestamp_list, call) IN
       env' = [env EXCEPT !.pending[call] = @ - 1,
                          !.timestamp_list = list,
                          !.event = IF Len(list) >= ExpectedResponses
                                    THEN TRUE ELSE @]
    /\ UNCHANGED <<db, lock, txn, pc, op, loc, ret, saved, quiet, race>>

SioReply(status, request_ts, respond_ts) ==
    [kind |-> "reply", status |-> status, request_ts |-> request_ts,
     respond_ts |-> respond_ts]

\* The wait ends because the event is set: the reply carries the global list
\* as it is now.
TimestampsReceived(p) ==
    /\ pc[p] = "t_wait"
    /\ env.event
    /\ ret' = [ret EXCEPT ![p] = SioReply("timestamps received",
                                          op[p].request_ts, env.timestamp_list)]
    /\ pc' = [pc EXCEPT ![p] = "done"]
    /\ UNCHANGED <<db, lock, txn, op, loc, saved, quiet, race, env>>

\* asyncio.TimeoutError after RESPONSE_TIMEOUT seconds without the event.
ResponseTimeout(p) ==
    /\ pc[p] = "t_wait"
    /\ ~env.event
    /\ ret' = [ret EXCEPT ![p] = SioReply("timeout", op[p].request_ts,
                                          env.timestamp_list)]
    /\ pc' = [pc EXCEPT ![p] = "done"]
    /\ UNCHANGED <<db, lock, txn, op, loc, saved, quiet, race, env>>

SioNext ==
    \/ \E p \in Procs : SendTimestamp(p)
    \/ \E call \in Calls : TimestampResponse(call)
    \/ \E p \in Procs : TimestampsReceived(p)
    \/ \E p \in Procs : ResponseTimeout(p)
    \/ \E p \in Procs : Return(p)

SioSpec == SioInit /\ [][SioNext]_vars

\* C28: every timestamp in the respond_ts that a send_timestamp invocation
\* returns answers that invocation's own request, and the status
\* "timestamps received" means that at least ExpectedResponses such answers
\* were collected.
C28_OwnResponses ==
    \A p \in Procs :
        (pc[p] = "done" /\ op[p].name = "send_timestamp")
        => /\ \A k \in DOMAIN ret[p].respond_ts :
                 ret[p].respond_ts[k] = ret[p].request_ts
           /\ ret[p].status = "timestamps received"
                 => Len(ret[p].respond_ts) >= ExpectedResponses

----------------------------------------------------------------------------
(* BenchmarkRunner of run_benchmarks.py: run_all_benchmarks runs the three *)
(* benchmark methods in turn, each starting a responder and a requester    *)
(* with start_service, executing the benchmark and terminating both.       *)

Benchmarks == <<"gRPC", "Socket.IO", "GraphQL">>

Process(bench, role, state) == [bench |-> bench, role |-> role, state |-> state]

RunnerInit ==
    /\ db = EmptyDb
    /\ lock = NoProc
    /\ txn = [p \in Procs |-> EmptyDb]
    /\ pc = [p \in Procs |-> "idle"]
    /\ op = [p \in Procs |-> NoOp]
    /\ loc = [p \in Procs |-> NoLoc]
    /\ ret = [p \in Procs |-> NoRet]
    /\ saved = <<>>
    /\ quiet = [p \in Procs |-> TRUE]
    /\ race = "none"
    /\ env = [clock |-> 0, processes |-> <<>>, bench |-> 0,
              results |-> [b \in DOMAIN Benchmarks |-> FALSE],
              compared |-> FALSE]

\* run_all_benchmarks up to the first benchmark method.
RunAllBenchmarks ==
    /\ pc[Caller] = "idle"
    /\ env.bench = 0
    /\ env' = [env EXCEPT !.bench = 1]
    /\ pc' = [pc EXCEPT ![Caller] = "b_responder"]
    /\ op' = [op EXCEPT ![Caller] = [name |-> "run_all_benchmarks"]]
    /\ UNCHANGED <<db, lock, txn, loc, ret, saved, quiet, race>>

\* A benchmark method returns `success`: its result is recorded and the next
\* method begins, or the finally clause after the last one.
BenchmarkReturns(processes, success) ==
    /\ env' = [env EXCEPT !.processes = processes,
                          !.results[env.bench] = success,
                          !.bench = @ + 1]
    /\ pc' = [pc EXCEPT ![Caller] = IF env.bench < Len(Benchmarks)
                                    THEN "b_responder" ELSE "b_finally"]

\* start_service: the process is spawned and appended to self.processes; after
\* the wait, poll() tells whether it is still running.
start_service(bench, role, running) ==
    Append(env.processes,
           Process(bench, role, IF running THEN "running" ELSE "exited"))

StartResponder ==
    /\ pc[Caller] = "b_responder"
    /\ \E running \in BOOLEAN :
         IF running
         THEN /\ env' = [env EXCEPT !.processes =
                            start_service(env.bench, "responder", TRUE)]
              /\ pc' = [pc EXCEPT ![Caller] = "b_requester"]
         ELSE BenchmarkReturns(start_service(env.bench, "responder", FALSE), FALSE)
    /\ UNCHANGED <<db, lock, txn, op, loc, ret, saved, quiet, race>>

\* The requester is started; when it has not come up the method returns False
\* at once.
StartRequester ==
    /\ pc[Caller] = "b_requester"
    /\ \E running \in BOOLEAN :
         IF running
         THEN /\ env' = [env EXCEPT !.processes =
                            start_service(env.bench, "requester", TRUE)]
              /\ pc' = [pc EXCEPT ![Caller] = "b_execute"]
         ELSE BenchmarkReturns(start_service(env.bench, "requester", FALSE), FALSE)
    /\ UNCHANGED <<db, lock, txn, op, loc, ret, saved, quiet, race>>

\* terminate() on a process that is running.
Terminate(process) ==
    IF process.state = "running"
    THEN Process(process.bench, process.role, "terminated")
    ELSE process

\* execute_benchmark returns True or False (every exception is caught), then
\* requester.terminate(), responder.terminate() and the return.
ExecuteBenchmark ==
    /\ pc[Caller] = "b_execute"
    /\ \E success \in BOOLEAN :
         BenchmarkReturns([k \in DOMAIN env.processes |->
                              IF env.processes[k].bench = env.bench
                              THEN Terminate(env.processes[k])
                              ELSE env.processes[k]],
                          success)
    /\ UNCHANGED <<db, lock, txn, op, loc, ret, saved, quiet, race>>

\* The finally clause: stop_all_services terminates every process of
\* self.processes.
StopAllServices ==
    /\ pc[Caller] = "b_finally"
    /\ env' = [env EXCEPT !.processes =
                  [k \in DOMAIN env.processes |-> Terminate(env.processes[k])]]
    /\ pc' = [pc EXCEPT ![Caller] = "b_summary"]
    /\ UNCHANGED <<db, lock, txn, op, loc, ret, saved, quiet, race>>

\* The summary and the comparison, run if all(results.values()).
PrintSummary ==
    /\ pc[Caller] = "b_summary"
    /\ env' = [env EXCEPT !.compared = \A b \in DOMAIN Benchmarks : env.results[b]]
    /\ pc' = [pc EXCEPT ![Caller] = "done"]
    /\ ret' = [ret EXCEPT ![Caller] = [kind |-> "ok"]]
    /\ UNCHANGED <<db, lock, txn, op, loc, saved, quiet, race>>

RunnerNext ==
    \/ RunAllBenchmarks
    \/ StartResponder
    \/ StartRequester
    \/ ExecuteBenchmark
    \/ StopAllServices
    \/ PrintSummary

RunnerSpec == RunnerInit /\ [][RunnerNext]_vars

\* C29: once a benchmark method has returned, none of the service processes
\* it started is still running (each has exited or has been told to
\* terminate), so none runs when the next benchmark starts its responder; and
\* compare.py has been run only if all three benchmarks returned success.
C29_ServicesStopped ==
    /\ \A k \in DOMAIN env.processes :
          env.processes[k].bench < env.bench
             => env.processes[k].state # "running"
    /\ env.compared => \A b \in DOMAIN Benchmarks : env.results[b]

====
